---- MODULE Spec2Model ----
(***************************************************************************)
(* Verification model of the lunadev-2025 runtime core:                    *)
(*   - the bounded Subscriber of urobotics-core (callbacks/callee.rs),     *)
(*   - the windowed Costmap node (costmap/src/lib.rs),                     *)
(*   - the run_all supervisor (unros-core/src/lib.rs),                     *)
(*   - the DirectPathfinder with its A* (navigator/src/pathfinding),       *)
(*   - the particle-filter localizer (localization/src/run.rs).            *)
(* Each component has its own specification over the shared variable list; *)
(* the variables of the other components stay at their initial values.     *)
(***************************************************************************)
EXTENDS Integers, Sequences, FiniteSets, TLC

(***************************************************************************)
(* Bounds of the model.                                                    *)
(***************************************************************************)
Capacity == 2
MaxPush == 3

Producers == {"p1", "p2"}
Receivers == {"r1", "r2"}
\* SpecSub runs one producer against one consumer, FairFan one producer
\* against two concurrent consumers, SpecRace two concurrent producers.
SubProducers == {"p1"}
SubReceivers == {"r1"}
FanProducers == {"p1"}
FanReceivers == {"r1", "r2"}
RaceProducers == {"p1", "p2"}
RaceReceivers == {"r1"}

\* Costmap: time runs in whole ticks up to MaxTime, at most MaxClouds point
\* clouds arrive, and the atomics are UsizeBits wide (usize has 64 bits; the
\* wrap-around of fetch_sub below zero is the same at any width).
MaxTime == 3
MaxClouds == 2
UsizeBits == 8
UsizeMod == 2 ^ UsizeBits
\* window_duration (a pub field, 5 s from Costmap::new), in ticks of half a window
WindowDuration == 2
\* area_width * area_length cells
Cells == 0 .. 1
\* the clouds that can arrive, as the PointMeasurement slices add_points_sub produces
CloudSet == { <<>>,
              << [index |-> 0, height |-> 3] >>,
              << [index |-> 0, height |-> 1], [index |-> 1, height |-> 2] >> }

\* Ingestion and snapshot (add_points_sub, get_costmap).  Lengths are in
\* tenths of a unit, so that cell_width 1.0 is 10 and height_step 0.1 is 1.
\* A point's x and z range over MinCoord .. MaxCoord, its y over HeightSet.
CoordBelow == 6
MinCoord == 0 - CoordBelow
MaxCoord == 26
HeightSet == {-3, 0, 1, 3, 5}
PointSet == [x : MinCoord .. MaxCoord, y : HeightSet, z : MinCoord .. MaxCoord]
\* the arguments of Costmap::new that SpecGrid runs over; none is square
GridSet == { [area_width |-> 2, area_length |-> 3, cell_width |-> 10,
              x_offset |-> 0, y_offset |-> 0, height_step |-> 1],
             [area_width |-> 3, area_length |-> 2, cell_width |-> 10,
              x_offset |-> 5, y_offset |-> -5, height_step |-> 2],
             [area_width |-> 3, area_length |-> 2, cell_width |-> 4,
              x_offset |-> 2, y_offset |-> 0, height_step |-> 1] }
\* scenario E2: a 4 x 4 grid, cell 1.0, height_step 0.1, offsets 0, and the
\* cloud pushed at t = 0; its window of 1 s is WindowDuration ticks long
E2Grid == [area_width |-> 4, area_length |-> 4, cell_width |-> 10,
           x_offset |-> 0, y_offset |-> 0, height_step |-> 1]
E2Cloud == << [x |-> 14, y |-> 3, z |-> 26] >>
\* the grid behind Cells
UnitGrid == [area_width |-> 1, area_length |-> 2, cell_width |-> 10,
             x_offset |-> 0, y_offset |-> 0, height_step |-> 1]

\* Pathfinder (direct.rs).  Lengths and heights are in halves of a unit:
\* `resolution` is 1.0, so a grid cell is Resolution = 2 wide.  The goal, in
\* the frame of `from`, has x and z in -Resolution .. Resolution * MaxCell.
MaxCell == 2
Resolution == 2
\* DirectPathfinder.max_height_diff = 1.0, max_frac = MaxFracNum / MaxFracDen
MaxHeightDiff == 2
MaxFracNum == 1
MaxFracDen == 2
\* the cells the bounded filter allows
Box == (-1 .. MaxCell + 1) \X (-1 .. MaxCell + 1)
\* The worlds: a filter (every cell, or the cells of Box) and the height
\* samples the ObstacleHub returns for a cell (none where not listed).
Open == [name |-> "Open", filter |-> "all", terrain |-> [c \in {} |-> <<>>]]
Flat == [name |-> "Flat", filter |-> "all", terrain |-> [c \in Box |-> <<0>>]]
Hill == [name |-> "Hill", filter |-> "all", terrain |-> [c \in Box |-> <<c[1], c[1]>>]]
Wall == [name |-> "Wall", filter |-> "box",
         terrain |-> [c \in {1} \X (-1 .. MaxCell + 1) |-> <<10>>]]
Pit == [name |-> "Pit", filter |-> "box",
        terrain |-> [c \in {<<0, 0>>, <<0, 1>>, <<1, 0>>} |->
                        IF c = <<0, 0>> THEN <<6>> ELSE IF c = <<0, 1>> THEN <<0, 8>> ELSE <<4>>]]
Rock == [name |-> "Rock", filter |-> "box", terrain |-> [c \in {<<1, 1>>} |-> <<10, 10>>]]
WorldSet == {Open, Flat, Hill, Wall, Pit, Rock}
\* A ridge that can only be climbed the long way round, and a goal on a peak
\* that no neighbour reaches: cell (0, 1) is first found from the ridge.
Ridge == [name |-> "Ridge", filter |-> "box",
          terrain |-> [c \in {<<1, 0>>, <<1, 1>>, <<0, 1>>, <<1, 2>>, <<2, 1>>, <<2, 3>>} |->
                          IF c = <<1, 0>> THEN <<2>>
                          ELSE IF c \in {<<1, 1>>, <<0, 1>>} THEN <<4>>
                          ELSE IF c = <<2, 3>> THEN <<12>> ELSE <<8>>]]
\* the poses `from`: a translation and a number of quarter turns about the y axis
IsoSet == { [t |-> [x |-> 0, y |-> 0, z |-> 0], turns |-> 0],
            [t |-> [x |-> 3, y |-> 1, z |-> -4], turns |-> 1] }
\* the goals, in the frame of `from`
GoalSet == [x : (0 - Resolution) .. Resolution * MaxCell, y : {0, 3},
            z : (0 - Resolution) .. Resolution * MaxCell]
\* the calls on the ridge: from the origin to the peak at cell (2, 3)
RidgeCalls == { [from |-> [t |-> [x |-> 0, y |-> 0, z |-> 0], turns |-> 0],
                 end |-> [x |-> 2 * Resolution, y |-> 0, z |-> 3 * Resolution],
                 world |-> Ridge, max_frac |-> <<MaxFracNum, MaxFracDen>>] }
\* Sparse ground: one sample per cell, level with the start, around a goal
\* at cell (1, 0), for a pathfinder whose max_frac is 1/4
Sparse == [name |-> "Sparse", filter |-> "box",
           terrain |-> [c \in {<<1, 0>>, <<1, 1>>, <<2, 0>>} |-> <<0>>]]
SparseCalls == { [from |-> [t |-> [x |-> 0, y |-> 0, z |-> 0], turns |-> 0],
                  end |-> [x |-> Resolution, y |-> 0, z |-> 0],
                  world |-> Sparse, max_frac |-> <<1, 4>>] }
\* A start on unsafe ground at the rim of the filter's box
Trap == [name |-> "Trap", filter |-> "box",
         terrain |-> [c \in {<<0, -1>>, <<0, 0>>, <<1, -1>>} |->
                         IF c = <<0, 0>> THEN <<6>> ELSE IF c = <<0, -1>> THEN <<0, 8>>
                         ELSE <<4>>]]
TrapCalls == { [from |-> [t |-> [x |-> 0, y |-> 0, z |-> 0], turns |-> 0],
                end |-> [x |-> Resolution, y |-> 0, z |-> 0],
                world |-> Trap, max_frac |-> <<MaxFracNum, MaxFracDen>>] }

\* traverse_to called on its own: a segment along the x axis from the origin
\* to a point at most MaxReach halves of a unit away, at height 0, for a
\* resolution of 0.5, 1.0 or 2.0, over terrain sampled at whole units.
MaxReach == 8
ResolutionSet == {1, 2, 4}
Line == { 2 * k : k \in (0 - MaxReach) .. MaxReach }
\* the terrains: no samples at all, level ground, level ground with a
\* step at one place, and level ground with no samples at one place
LineSet == { [x \in {} |-> <<>>], [x \in Line |-> <<0>>] }
               \cup { [x \in Line |-> IF x = k THEN <<10>> ELSE <<0>>] : k \in {-4, 2, 4} }
               \cup { [x \in Line \ {k} |-> <<0>>] : k \in {-2, 2, 4} }
TraverseSet == [from : {0}, to : ((0 - MaxReach) .. MaxReach) \ {0},
                resolution : ResolutionSet, terrain : LineSet]

\* calls made on one RunOnce
MaxCalls == 5
\* the results func can return
FuncSet == {1, 2}

\* run_localizer: bb.point_count particles, at most MaxIterations rounds of
\* the loop.  Values are one coordinate of a vector (or an angle) in whole
\* units, time is in ticks, weights are exact fractions <<numerator, denominator>>.
NumParticles == 2
MaxIterations == 2
\* bb.max_delta, in ticks
MaxDelta == 1
\* bb.minimum_unnormalized_weight = MinWeightNum / MinWeightDen
MinWeightNum == 1
MinWeightDen == 4
\* bb.undeprivation_factor = UndeprivationNum / UndeprivationDen
UndeprivationNum == 1
UndeprivationDen == 2
\* the observed values, the variances (0, or one non-zero value), and the
\* offsets the random draws of the observation step can add
ObsSet == {0, 2}
\* the values the other streams observe
RestSet == {0}
VarianceSet == {0, 1}
JitterSet == {0, 1}
\* the offsets the random draws of the resampling can add (the mean of the
\* recorded standard deviations is their scale)
DriftSet == {0}
\* the particles the seeding can draw (start_std_dev spreads position,
\* linear_velocity and linear_acceleration; orientation = bb.start_orientation)
SeedSet == { [position |-> x, linear_velocity |-> 0, linear_acceleration |-> 0,
              orientation |-> 0, angular_velocity |-> 0] : x \in {0, 1} }
\* bb.likelihood_table: per dimension "one" (always 1), "near" (1 within one
\* unit of the origin, else 0) or "half" (1 at the origin, else 1/2)
TableSet == { [position |-> "one", orientation |-> "one", linear_velocity |-> "one",
               angular_velocity |-> "one", linear_acceleration |-> "one"],
              [position |-> "near", orientation |-> "one", linear_velocity |-> "half",
               angular_velocity |-> "one", linear_acceleration |-> "one"] }

\* run_all: the nodes handed to the supervisor
Nodes == {"n1", "n2", "n3"}

VARIABLES
    \* ---- Subscriber (callee.rs) ----
    subAlive,       \* the Subscriber value (the strong Arc) still exists
    queue,          \* SubscriberInner.queue : ArrayQueue<T>, oldest first
    permit,         \* SubscriberInner.notify : the stored notify_one permit
    waiters,        \* SubscriberInner.notify : FIFO list of parked Notified futures
    cbAlive,        \* producer p owns a callback (a Weak to the buffer)
    cbMode,         \* "conservative" or "force": which constructor made p's callback
    ppc,            \* position of producer p inside its callback invocation
    parg,           \* the value p's current invocation was called with
    holding,        \* p's invocation holds the upgraded Arc (a strong reference)
    rpc,            \* position of receiver r inside recv
    nextSeq,        \* number of callback invocations started so far
    \* ---- history of the Subscriber (observations only) ----
    lastGot,        \* sequence number of the latest value of producer p that was received
    pending,        \* values the queue accepted, neither displaced nor received yet
    burstLen,       \* length of: queue before the current run of pushes, then the pushed values
    burstLast,      \* the last Capacity values of that sequence
    burstForce,     \* every push of the current run went through create_callback
    drained,        \* values received since the last push
    lastResult,     \* ControlFlow returned by p's latest completed invocation
    aliveAtUpgrade, \* the Subscriber existed when p's invocation ran upgrade()
    heldAtUpgrade,  \* the Subscriber was gone and another invocation held the buffer then
    lastPush,       \* outcome of the latest push: "accepted", "refused" or "displaced"
    noneSeen,       \* some recv has returned None
    cancelHead,     \* <<v>>: r dropped an unfinished recv future while v headed the queue
    \* ---- Costmap (costmap/src/lib.rs) ----
    now,            \* start.elapsed(), in ticks
    counts,         \* Costmap.counts  : [AtomicUsize]
    heights,        \* Costmap.heights : [AtomicUsize]
    runAlive,       \* the Costmap::run task (and with it del_sender) still exists
    del_chan,       \* the mpsc channel del_sender -> del_recv: batch numbers, oldest first
    batches,        \* the clouds received: [t, due, pts], in order of arrival
    insDone,        \* insertion task of batch b, point i: 0 nothing, 1 count added, 2 height added
    retDone,        \* retraction of batch b, point i: 0 nothing, 1 count removed, 2 height removed
    wpc,            \* position of the retirement worker: "recv", "sleep", "sub", "exited"
    wcur,           \* the batch the retirement worker holds
    \* ---- Costmap ingestion and snapshot ----
    grid,           \* the fields area_width, area_length, cell_width, x_offset, y_offset, height_step
    gpoint,         \* the Point3<f32> handed to the filter_map closure
    gpm,            \* what the closure returned: <<>> for None, <<m>> for Some(m)
    gmat,           \* the matrix the latest get_costmap returned, <<>> before the first
    gpc,            \* "new", "mapped" the closure has run, "inserted", "retracted"
    \* ---- DirectPathfinder::pathfind (direct.rs) and astar (alg.rs) ----
    pin,            \* the arguments: from, end (world frame) and the world (hub and filter)
    apc,            \* "call", "pre" and "main" (inside astar), "smooth", "done"
    to_see,         \* astar: the BinaryHeap, as the set of its entries
    parents,        \* astar: the IndexMap, in insertion order: [node, parent, cost]
    rounds,         \* astar: the rounds of the loop run so far (history)
    popped,         \* astar: the entry of the last to_see.pop() and the heap it left (history)
    pre_path,       \* the nodes before the safe start
    start_node,
    end_node,
    distance,       \* the cost the main astar returned, -1 before
    rejected,       \* the main phase has rejected a neighbour by the height test
    path,           \* pre_path followed by post_path, as points
    pnext,          \* position in path of the `next` of the smoothing loop
    new_path,
    start,          \* the local `start` of the smoothing loop
    last,           \* the local `last` of the smoothing loop
    pres,           \* what pathfind returned: <<>> not yet, <<"None">> or <<"Some", points>>
    \* ---- run_all (unros-core/src/lib.rs) ----
    spc,            \* position of run_all: "loop", "drain", "retOk", "retErr"
    nodeState,      \* task of node n: "running", "ok", "err", "panicked", "cancelled"
    doneQ,          \* tasks: finished tasks that join_next has not yet returned, oldest first
    joinedIn,       \* where join_next returned n's task: "no", "loop", "drain"
    aborting,       \* the tasks have been told to stop (abort_all, or the JoinSet was dropped)
    ctrl_c_failed,  \* the local of that name
    errorLog,       \* node names written by error!("{name} has faced the following error: {e}")
    leftBy,         \* how the loop was left: "no", "allDone", "interrupt", "joinError"
    \* ---- run_localizer (localization/src/run.rs) ----
    lpc,            \* position of run_localizer: "idle", "select", "block", "returned", "panicked"
    particles,      \* particles : Vec<Particle<N>>
    waited,         \* ticks since `start`, the instant of the previous block
    delta,          \* the block's `delta`
    tables,         \* the five cumulative tables: the particles as the block found them
    cursor,         \* the particle the resampling pass is at
    robot_base,     \* bb.robot_base: the pose it holds
    likelihood_table, \* bb.likelihood_table: the kind of callable of each dimension
    iterations,     \* loop iterations begun so far (history)
    lobs,           \* the branch the last select took and what it found (history)
    lblock,         \* blocks run and RobotBase writes of the current iteration (history)
    \* ---- DirectPathfinder::traverse_to (direct.rs), called on its own ----
    tpc,            \* position of the call: "idle", "call", "query", "done"
    tin,            \* the arguments: from, to, resolution, and the terrain the hub knows
    tqueries,       \* the positions of the HeightQuery batch, in order
    tres,           \* the result (<<>> until the call returns)
    \* ---- RunOnce (ares-bt/src/action.rs) ----
    ran,            \* RunOnce.ran
    invoked,        \* calls of func so far (history)
    returned,       \* the calls and what they returned, oldest first (history)
    armed           \* a reset happened since the last call (history)

subVars == <<subAlive, queue, permit, waiters, cbAlive, cbMode, ppc, parg, holding,
             rpc, nextSeq, lastGot, pending, burstLen, burstLast, burstForce, drained,
             lastResult, aliveAtUpgrade, heldAtUpgrade, lastPush, noneSeen, cancelHead>>

mapVars == <<now, counts, heights, runAlive, del_chan, batches, insDone, retDone, wpc, wcur>>

supVars == <<spc, nodeState, doneQ, joinedIn, aborting, ctrl_c_failed, errorLog, leftBy>>

gridVars == <<grid, gpoint, gpm, gmat, gpc>>

pathVars == <<pin, apc, to_see, parents, rounds, popped, pre_path, start_node, end_node, distance,
              rejected, path, pnext, new_path, start, last, pres>>

locVars == <<lpc, particles, waited, delta, tables, cursor, robot_base, likelihood_table, iterations, lobs, lblock>>

travVars == <<tpc, tin, tqueries, tres>>

onceVars == <<ran, invoked, returned, armed>>

vars == <<subVars, mapVars, supVars, gridVars, pathVars, locVars, travVars, onceVars>>

\* what the actions of one component leave alone
notSub == <<mapVars, supVars, gridVars, pathVars, locVars, travVars, onceVars>>
notMap == <<subVars, supVars, gridVars, pathVars, locVars, travVars, onceVars>>
notSup == <<subVars, mapVars, gridVars, pathVars, locVars, travVars, onceVars>>
notGrid == <<subVars, supVars, pathVars, locVars, travVars, onceVars,
             now, runAlive, del_chan, batches, insDone, retDone, wpc, wcur>>
notPath == <<subVars, mapVars, supVars, gridVars, locVars, travVars, onceVars>>
notLoc == <<subVars, mapVars, supVars, gridVars, pathVars, travVars, onceVars>>
notTrav == <<subVars, mapVars, supVars, gridVars, pathVars, locVars, onceVars>>
notOnce == <<subVars, mapVars, supVars, gridVars, pathVars, locVars, travVars>>

(***************************************************************************)
(* Sequence helpers.                                                       *)
(***************************************************************************)
SeqRemove(s, x) == SelectSeq(s, LAMBDA y : y # x)

LastK(s, k) == IF Len(s) <= k THEN s ELSE SubSeq(s, Len(s) - k + 1, Len(s))

(***************************************************************************)
(* crossbeam ArrayQueue as used by callee.rs: linearizable operations.     *)
(***************************************************************************)
\* A pop that hands out the newest element instead of the oldest.
ArrayQueue_pop_newest(q) ==
    IF q = <<>> THEN [some |-> FALSE, q |-> q]
    ELSE [some |-> TRUE, value |-> q[Len(q)], q |-> SubSeq(q, 1, Len(q) - 1)]

\* queue.pop(): the oldest element, or nothing.
ArrayQueue_pop(q) ==
    IF q = <<>> THEN [some |-> FALSE, q |-> q]
    ELSE [some |-> TRUE, value |-> Head(q), q |-> Tail(q)]

\* A push that makes room by displacing the oldest element when full.
ArrayQueue_push_displacing(q, v) ==
    IF Len(q) < Capacity THEN [ok |-> TRUE, q |-> Append(q, v)]
    ELSE [ok |-> FALSE, q |-> Append(Tail(q), v)]

\* queue.push(value): Ok(()), or Err(value) when full and the queue is left alone.
ArrayQueue_push(q, v) ==
    IF Len(q) < Capacity THEN [ok |-> TRUE, q |-> Append(q, v)]
    ELSE [ok |-> FALSE, q |-> q]

\* A force_push that overwrites the newest element when full.
ArrayQueue_force_push_newest(q, v) ==
    IF Len(q) < Capacity THEN [old |-> <<>>, q |-> Append(q, v)]
    ELSE [old |-> <<q[Len(q)]>>, q |-> Append(SubSeq(q, 1, Len(q) - 1), v)]

\* queue.force_push(value): None, or when full Some(old) with the oldest
\* element displaced (old is <<>> for None and <<x>> for Some(x)).
ArrayQueue_force_push(q, v) ==
    IF Len(q) < Capacity THEN [old |-> <<>>, q |-> Append(q, v)]
    ELSE [old |-> <<Head(q)>>, q |-> Append(Tail(q), v)]

(***************************************************************************)
(* Arc bookkeeping.                                                        *)
(***************************************************************************)
\* Arc::weak_count(&self.inner) == 0
is_closed == \A p \in Producers : ~cbAlive[p]

\* An upgrade that only looks at the Subscriber.
upgrade_subscriber_only(p) == subAlive

\* Weak::upgrade succeeds while any strong reference exists: the Subscriber
\* itself or the upgraded Arc of an invocation in flight.
upgrade(p) == subAlive \/ \E q \in Producers : holding[q]

(***************************************************************************)
(* tokio Notify.                                                           *)
(***************************************************************************)
\* notify_one(): wake the longest-parked waiter, else store the single permit.
notify_one ==
    IF waiters # <<>>
    THEN /\ rpc' = [rpc EXCEPT ![Head(waiters)] = "woken"]
         /\ waiters' = Tail(waiters)
         /\ permit' = permit
    ELSE /\ permit' = TRUE
         /\ UNCHANGED <<rpc, waiters>>

\* History of a push of v by p: a receive since the last push starts a new run
\* of pushes from what the queue then holds.
histPush(p, v) ==
    /\ burstLen' = (IF drained = <<>> THEN burstLen ELSE Len(queue)) + 1
    /\ burstLast' = LastK(Append(IF drained = <<>> THEN burstLast ELSE queue, v), Capacity)
    /\ burstForce' = ((drained # <<>> \/ burstForce) /\ cbMode[p] = "force")
    /\ drained' = <<>>
    /\ UNCHANGED lastGot

\* History of a receive of v by r.  The note of a dropped recv future is kept
\* while r's next receive returns the value that headed the queue at the drop.
histRecv(r, v) ==
    /\ cancelHead' = [cancelHead EXCEPT ![r] = IF cancelHead[r] = <<v>> THEN <<v>> ELSE <<>>]
    /\ lastGot' = [lastGot EXCEPT ![v[1]] = v[2]]
    /\ pending' = SeqRemove(pending, v)
    /\ drained' = Append(drained, v)
    /\ UNCHANGED <<burstLen, burstLast, burstForce>>

histCall == <<lastResult, aliveAtUpgrade, heldAtUpgrade, lastPush>>
histQueue == <<lastGot, pending, burstLen, burstLast, burstForce, drained>>

(***************************************************************************)
(* Subscriber: construction.                                               *)
(***************************************************************************)
InitSub ==
    /\ subAlive = TRUE
    /\ queue = <<>>
    /\ permit = FALSE
    /\ waiters = <<>>
    /\ cbAlive = [p \in Producers |-> FALSE]
    /\ cbMode = [p \in Producers |-> "force"]
    /\ ppc = [p \in Producers |-> "idle"]
    /\ parg = [p \in Producers |-> <<>>]
    /\ holding = [p \in Producers |-> FALSE]
    /\ rpc = [r \in Receivers |-> "idle"]
    /\ nextSeq = 0
    /\ lastGot = [p \in Producers |-> 0]
    /\ pending = <<>>
    /\ burstLen = 0
    /\ burstLast = <<>>
    /\ burstForce = TRUE
    /\ drained = <<>>
    /\ lastResult = [p \in Producers |-> "none"]
    /\ aliveAtUpgrade = [p \in Producers |-> FALSE]
    /\ heldAtUpgrade = [p \in Producers |-> FALSE]
    /\ lastPush = "none"
    /\ noneSeen = FALSE
    /\ cancelHead = [r \in Receivers |-> <<>>]

\* Costmap::new and the start of Costmap::run: every cell zero, the worker
\* spawned and blocked in del_recv.recv().
InitMap ==
    /\ now = 0
    /\ counts = [c \in Cells |-> 0]
    /\ heights = [c \in Cells |-> 0]
    /\ grid = UnitGrid
    /\ gpoint = <<>>
    /\ gpm = <<>>
    /\ gmat = <<>>
    /\ gpc = "new"
    /\ runAlive = TRUE
    /\ del_chan = <<>>
    /\ batches = <<>>
    /\ insDone = <<>>
    /\ retDone = <<>>
    /\ wpc = "recv"
    /\ wcur = 0

\* run_all after the spawn loop: every node has a task in the JoinSet.
InitSup ==
    /\ spc = "loop"
    /\ nodeState = [n \in Nodes |-> "running"]
    /\ doneQ = <<>>
    /\ joinedIn = [n \in Nodes |-> "no"]
    /\ aborting = FALSE
    /\ ctrl_c_failed = FALSE
    /\ errorLog = {}
    /\ leftBy = "no"

\* no pathfind call in progress
InitPathIdle ==
    /\ pin = [from |-> [t |-> [x |-> 0, y |-> 0, z |-> 0], turns |-> 0],
              end |-> [x |-> 0, y |-> 0, z |-> 0], world |-> Open,
              max_frac |-> <<MaxFracNum, MaxFracDen>>]
    /\ apc = "call"
    /\ to_see = {}
    /\ parents = <<>>
    /\ rounds = 0
    /\ popped = <<>>
    /\ pre_path = <<>>
    /\ start_node = [position |-> <<0, 0>>, height |-> 0]
    /\ end_node = [position |-> <<0, 0>>, height |-> 0]
    /\ distance = -1
    /\ rejected = FALSE
    /\ path = <<>>
    /\ pnext = 0
    /\ new_path = <<>>
    /\ start = <<>>
    /\ last = <<>>
    /\ pres = <<>>

\* run_localizer has not been entered
InitLocIdle ==
    /\ lpc = "idle"
    /\ particles = <<>>
    /\ waited = 0
    /\ delta = 0
    /\ tables = <<>>
    /\ cursor = 0
    /\ robot_base = <<>>
    /\ likelihood_table = <<>>
    /\ iterations = 0
    /\ lobs = <<>>
    /\ lblock = <<>>

\* no traverse_to call of its own in progress
InitTravIdle ==
    /\ tpc = "idle"
    /\ tin = <<>>
    /\ tqueries = <<>>
    /\ tres = <<>>

\* RunOnce::from(func)
InitOnce ==
    /\ ran = FALSE
    /\ invoked = 0
    /\ returned = <<>>
    /\ armed = FALSE

\* what every specification starts with besides its own component
InitRest == InitTravIdle /\ InitOnce

Init == InitSub /\ InitMap /\ InitSup /\ InitPathIdle /\ InitLocIdle /\ InitRest

(***************************************************************************)
(* Subscriber: the two callback constructors and the callback's drop.      *)
(***************************************************************************)
create_conservative_callback(p) ==
    /\ subAlive /\ ~cbAlive[p]
    /\ cbAlive' = [cbAlive EXCEPT ![p] = TRUE]
    /\ cbMode' = [cbMode EXCEPT ![p] = "conservative"]
    /\ UNCHANGED <<subAlive, queue, permit, waiters, ppc, parg, holding, rpc, nextSeq,
                   histQueue, histCall, noneSeen, cancelHead>>
    /\ UNCHANGED notSub

create_callback(p) ==
    /\ subAlive /\ ~cbAlive[p]
    /\ cbAlive' = [cbAlive EXCEPT ![p] = TRUE]
    /\ cbMode' = [cbMode EXCEPT ![p] = "force"]
    /\ UNCHANGED <<subAlive, queue, permit, waiters, ppc, parg, holding, rpc, nextSeq,
                   histQueue, histCall, noneSeen, cancelHead>>
    /\ UNCHANGED notSub

DropCallback(p) ==
    /\ cbAlive[p] /\ ppc[p] = "idle"
    /\ cbAlive' = [cbAlive EXCEPT ![p] = FALSE]
    /\ lastResult' = [lastResult EXCEPT ![p] = "none"]
    /\ aliveAtUpgrade' = [aliveAtUpgrade EXCEPT ![p] = FALSE]
    /\ heldAtUpgrade' = [heldAtUpgrade EXCEPT ![p] = FALSE]
    /\ UNCHANGED <<subAlive, queue, permit, waiters, cbMode, ppc, parg, holding, rpc,
                   nextSeq, histQueue, lastPush, noneSeen, cancelHead>>
    /\ UNCHANGED notSub

\* The Subscriber is dropped; recv/try_recv borrow it, so none is in progress.
DropSubscriber ==
    /\ subAlive
    /\ \A r \in Receivers : rpc[r] = "idle"
    /\ subAlive' = FALSE
    /\ UNCHANGED <<queue, permit, waiters, cbAlive, cbMode, ppc, parg, holding, rpc,
                   nextSeq, histQueue, histCall, noneSeen, cancelHead>>
    /\ UNCHANGED notSub

(***************************************************************************)
(* Subscriber: one invocation of a producer callback.  The closure is      *)
(* Fn + Send + Sync, so invocations of different producers interleave with *)
(* each other and with the receivers at each access to shared state: the   *)
(* upgrade, the push and the notify_one.                                   *)
(***************************************************************************)
\* The producer calls its callback with a fresh value:
\*   let Some(inner) = inner.upgrade() else { return ControlFlow::Break(()) };
CallbackCall(p) ==
    /\ cbAlive[p] /\ ppc[p] = "idle"
    /\ nextSeq < MaxPush
    /\ nextSeq' = nextSeq + 1
    /\ aliveAtUpgrade' = [aliveAtUpgrade EXCEPT ![p] = subAlive]
    /\ heldAtUpgrade' = [heldAtUpgrade EXCEPT ![p] =
                              ~subAlive /\ \E q \in Producers : holding[q]]
    /\ IF upgrade(p)
       THEN /\ holding' = [holding EXCEPT ![p] = TRUE]
            /\ ppc' = [ppc EXCEPT ![p] = "push"]
            /\ parg' = [parg EXCEPT ![p] = <<p, nextSeq + 1>>]
            /\ lastResult' = [lastResult EXCEPT ![p] = "none"]
       ELSE /\ lastResult' = [lastResult EXCEPT ![p] = "Break"]
            /\ UNCHANGED <<holding, ppc, parg>>
    /\ UNCHANGED <<subAlive, queue, permit, waiters, cbAlive, cbMode, rpc,
                   histQueue, lastPush, noneSeen, cancelHead>>
    /\ UNCHANGED notSub

\* ControlFlow::Continue(()): the upgraded Arc goes out of scope with the call.
CallbackReturn(p) ==
    /\ holding' = [holding EXCEPT ![p] = FALSE]
    /\ lastResult' = [lastResult EXCEPT ![p] = "Continue"]
    /\ ppc' = [ppc EXCEPT ![p] = "idle"]
    /\ parg' = [parg EXCEPT ![p] = <<>>]

\* if inner.queue.push(value).is_ok() { ... }       (create_conservative_callback)
\* if inner.queue.force_push(value).is_none() { ... }        (create_callback)
\* A push that is refused or that displaces an element skips notify_one and returns.
CallbackPush(p) ==
    /\ ppc[p] = "push"
    /\ histPush(p, parg[p])
    /\ IF cbMode[p] = "conservative"
       THEN LET res == ArrayQueue_push(queue, parg[p]) IN
            /\ queue' = res.q
            /\ pending' = IF res.ok THEN Append(pending, parg[p]) ELSE pending
            /\ lastPush' = IF res.ok THEN "accepted" ELSE "refused"
            /\ IF res.ok
               THEN /\ ppc' = [ppc EXCEPT ![p] = "notify"]
                    /\ UNCHANGED <<holding, lastResult, parg>>
               ELSE CallbackReturn(p)
       ELSE LET res == ArrayQueue_force_push(queue, parg[p]) IN
            /\ queue' = res.q
            /\ pending' = Append(IF res.old = <<>> THEN pending
                                 ELSE SeqRemove(pending, res.old[1]), parg[p])
            /\ lastPush' = IF res.old = <<>> THEN "accepted" ELSE "displaced"
            /\ IF res.old = <<>>
               THEN /\ ppc' = [ppc EXCEPT ![p] = "notify"]
                    /\ UNCHANGED <<holding, lastResult, parg>>
               ELSE CallbackReturn(p)
    /\ UNCHANGED <<subAlive, permit, waiters, cbAlive, cbMode, rpc, nextSeq,
                   aliveAtUpgrade, heldAtUpgrade, noneSeen, cancelHead>>
    /\ UNCHANGED notSub

\* inner.notify.notify_one(); ControlFlow::Continue(())
CallbackNotify(p) ==
    /\ ppc[p] = "notify"
    /\ notify_one
    /\ CallbackReturn(p)
    /\ UNCHANGED <<subAlive, queue, cbAlive, cbMode, nextSeq,
                   histQueue, aliveAtUpgrade, heldAtUpgrade, lastPush, noneSeen, cancelHead>>
    /\ UNCHANGED notSub

(***************************************************************************)
(* Subscriber: try_recv and recv.                                          *)
(***************************************************************************)
try_recv(r) ==
    /\ subAlive /\ rpc[r] = "idle"
    /\ LET res == ArrayQueue_pop(queue) IN
       /\ res.some
       /\ queue' = res.q
       /\ histRecv(r, res.value)
    /\ UNCHANGED <<subAlive, permit, waiters, cbAlive, cbMode, ppc, parg, holding, rpc,
                   nextSeq, histCall, noneSeen>>
    /\ UNCHANGED notSub

\* if let Some(value) = self.inner.queue.pop() { return Some(value); }
\* Runs when recv() is first polled and again each time round the loop.
RecvLoop(r) ==
    LET res == ArrayQueue_pop(queue) IN
    IF res.some
    THEN /\ queue' = res.q
         /\ histRecv(r, res.value)
         /\ rpc' = [rpc EXCEPT ![r] = "idle"]
    ELSE /\ rpc' = [rpc EXCEPT ![r] = "closed"]
         /\ cancelHead' = [cancelHead EXCEPT ![r] = <<>>]
         /\ UNCHANGED <<queue, histQueue>>

RecvCall(r) ==
    /\ subAlive /\ rpc[r] = "idle"
    /\ RecvLoop(r)
    /\ UNCHANGED <<subAlive, permit, waiters, cbAlive, cbMode, ppc, parg, holding,
                   nextSeq, histCall, noneSeen>>
    /\ UNCHANGED notSub

\* if self.is_closed() { return None; }
RecvClosed(r) ==
    /\ rpc[r] = "closed"
    /\ IF is_closed
       THEN /\ rpc' = [rpc EXCEPT ![r] = "idle"]
            /\ noneSeen' = TRUE
       ELSE /\ rpc' = [rpc EXCEPT ![r] = "notified"]
            /\ UNCHANGED noneSeen
    /\ UNCHANGED <<subAlive, queue, permit, waiters, cbAlive, cbMode, ppc, parg, holding,
                   nextSeq, histQueue, histCall, cancelHead>>
    /\ UNCHANGED notSub

\* self.inner.notify.notified().await -- first poll: take the stored permit
\* and go round the loop, or park in the waiter list.
RecvNotified(r) ==
    /\ rpc[r] = "notified"
    /\ IF permit
       THEN /\ permit' = FALSE
            /\ RecvLoop(r)
            /\ UNCHANGED waiters
       ELSE /\ waiters' = Append(waiters, r)
            /\ rpc' = [rpc EXCEPT ![r] = "parked"]
            /\ UNCHANGED <<permit, queue, histQueue, cancelHead>>
    /\ UNCHANGED <<subAlive, cbAlive, cbMode, ppc, parg, holding, nextSeq,
                   histCall, noneSeen>>
    /\ UNCHANGED notSub

\* the future that notify_one woke is polled again and goes round the loop
RecvWake(r) ==
    /\ rpc[r] = "woken"
    /\ RecvLoop(r)
    /\ UNCHANGED <<subAlive, permit, waiters, cbAlive, cbMode, ppc, parg, holding,
                   nextSeq, histCall, noneSeen>>
    /\ UNCHANGED notSub

\* A cancellation that loses the message at the head of the queue, as a recv
\* that popped before it suspended would.
RecvCancelLosing(r) ==
    /\ rpc[r] \in {"parked", "woken"}
    /\ cancelHead' = [cancelHead EXCEPT ![r] = IF queue = <<>> THEN <<>> ELSE <<Head(queue)>>]
    /\ queue' = IF queue = <<>> THEN queue ELSE Tail(queue)
    /\ waiters' = SeqRemove(waiters, r)
    /\ rpc' = [rpc EXCEPT ![r] = "idle"]
    /\ UNCHANGED <<subAlive, permit, cbAlive, cbMode, ppc, parg, holding, nextSeq,
                   histQueue, histCall, noneSeen>>
    /\ UNCHANGED notSub

\* The recv future is dropped at its only suspension point (the losing branch
\* of a select!).  Dropping a parked Notified unlinks it; dropping one that
\* notify_one had already chosen hands the notification on.
RecvCancel(r) ==
    /\ rpc[r] \in {"parked", "woken"}
    /\ cancelHead' = [cancelHead EXCEPT ![r] = IF queue = <<>> THEN <<>> ELSE <<Head(queue)>>]
    /\ IF rpc[r] = "parked"
       THEN /\ waiters' = SeqRemove(waiters, r)
            /\ rpc' = [rpc EXCEPT ![r] = "idle"]
            /\ UNCHANGED permit
       ELSE IF waiters # <<>>
            THEN /\ rpc' = [rpc EXCEPT ![r] = "idle", ![Head(waiters)] = "woken"]
                 /\ waiters' = Tail(waiters)
                 /\ UNCHANGED permit
            ELSE /\ permit' = TRUE
                 /\ rpc' = [rpc EXCEPT ![r] = "idle"]
                 /\ UNCHANGED waiters
    /\ UNCHANGED <<subAlive, queue, cbAlive, cbMode, ppc, parg, holding, nextSeq,
                   histQueue, histCall, noneSeen>>
    /\ UNCHANGED notSub

NextSub ==
    \/ \E p \in SubProducers : create_conservative_callback(p)
    \/ \E p \in SubProducers : create_callback(p)
    \/ \E p \in SubProducers : DropCallback(p)
    \/ DropSubscriber
    \/ \E p \in SubProducers : CallbackCall(p)
    \/ \E p \in SubProducers : CallbackPush(p)
    \/ \E p \in SubProducers : CallbackNotify(p)
    \/ \E r \in SubReceivers : try_recv(r)
    \/ \E r \in SubReceivers : RecvCall(r)
    \/ \E r \in SubReceivers : RecvClosed(r)
    \/ \E r \in SubReceivers : RecvNotified(r)
    \/ \E r \in SubReceivers : RecvWake(r)
    \/ \E r \in SubReceivers : RecvCancel(r)

SpecSub == Init /\ [][NextSub]_vars

\* Scheduling: a thread inside a callback runs on to its return, and the
\* executor polls a recv future that is running or has been woken.  Nothing
\* obliges a producer to push again or a consumer to call recv.
FairSub ==
    /\ SpecSub
    /\ \A p \in SubProducers : WF_vars(CallbackPush(p)) /\ WF_vars(CallbackNotify(p))
    /\ \A r \in SubReceivers :
          WF_vars(RecvClosed(r)) /\ WF_vars(RecvNotified(r)) /\ WF_vars(RecvWake(r))

NextRace ==
    \/ \E p \in RaceProducers : create_conservative_callback(p)
    \/ \E p \in RaceProducers : create_callback(p)
    \/ \E p \in RaceProducers : DropCallback(p)
    \/ DropSubscriber
    \/ \E p \in RaceProducers : CallbackCall(p)
    \/ \E p \in RaceProducers : CallbackPush(p)
    \/ \E p \in RaceProducers : CallbackNotify(p)
    \/ \E r \in RaceReceivers : try_recv(r)

SpecRace == Init /\ [][NextRace]_vars

NextFan ==
    \/ \E p \in FanProducers : create_conservative_callback(p)
    \/ \E p \in FanProducers : create_callback(p)
    \/ \E p \in FanProducers : DropCallback(p)
    \/ DropSubscriber
    \/ \E p \in FanProducers : CallbackCall(p)
    \/ \E p \in FanProducers : CallbackPush(p)
    \/ \E p \in FanProducers : CallbackNotify(p)
    \/ \E r \in FanReceivers : try_recv(r)
    \/ \E r \in FanReceivers : RecvCall(r)
    \/ \E r \in FanReceivers : RecvClosed(r)
    \/ \E r \in FanReceivers : RecvNotified(r)
    \/ \E r \in FanReceivers : RecvWake(r)
    \/ \E r \in FanReceivers : RecvCancel(r)

\* The same scheduling for two consumers.
FairFan ==
    /\ Init /\ [][NextFan]_vars
    /\ \A p \in FanProducers : WF_vars(CallbackPush(p)) /\ WF_vars(CallbackNotify(p))
    /\ \A r \in FanReceivers :
          WF_vars(RecvClosed(r)) /\ WF_vars(RecvNotified(r)) /\ WF_vars(RecvWake(r))

(***************************************************************************)
(* Costmap::run.  Three kinds of thread touch the cells: the ingest loop    *)
(* (an async task), the insertion tasks it spawns on the rayon pool, one    *)
(* per cloud, and the retirement worker, also on the rayon pool.  Each      *)
(* fetch_add / fetch_sub is one atomic step; par_iter visits the points of  *)
(* a cloud in any order.                                                    *)
(***************************************************************************)
PointsOf(b) == IF b \in DOMAIN batches THEN DOMAIN batches[b].pts ELSE {}

\* fetch_add / fetch_sub on an AtomicUsize wrap around
fetch_add(x, d) == (x + d) % UsizeMod
fetch_sub(x, d) == (x + UsizeMod - (d % UsizeMod)) % UsizeMod

\* real time passes
Tick ==
    /\ now < MaxTime
    /\ now' = now + 1
    /\ UNCHANGED <<counts, heights, runAlive, del_chan, batches, insDone, retDone, wpc, wcur>>
    /\ UNCHANGED notMap

\* One round of the ingest loop: points_sub.recv().await yields a cloud, its
\* retraction is sent to the worker with the due time elapsed + window_duration,
\* and its insertion is spawned.
Ingest(cloud) ==
    /\ runAlive
    /\ Len(batches) < MaxClouds
    /\ batches' = Append(batches, [t |-> now, due |-> now + WindowDuration, pts |-> cloud])
    /\ del_chan' = Append(del_chan, Len(batches) + 1)
    /\ insDone' = Append(insDone, [i \in DOMAIN cloud |-> 0])
    /\ retDone' = Append(retDone, [i \in DOMAIN cloud |-> 0])
    /\ UNCHANGED <<now, counts, heights, runAlive, wpc, wcur>>
    /\ UNCHANGED notMap

\* counts[p.index].fetch_add(1, Relaxed) in the insertion task of batch b
InsertCount(b, i) ==
    /\ insDone[b][i] = 0
    /\ counts' = [counts EXCEPT ![batches[b].pts[i].index] = fetch_add(@, 1)]
    /\ insDone' = [insDone EXCEPT ![b][i] = 1]
    /\ UNCHANGED <<now, heights, runAlive, del_chan, batches, retDone, wpc, wcur>>
    /\ UNCHANGED notMap

\* heights[p.index].fetch_add(p.height, Relaxed)
InsertHeight(b, i) ==
    /\ insDone[b][i] = 1
    /\ heights' = [heights EXCEPT ![batches[b].pts[i].index] =
                                        fetch_add(@, batches[b].pts[i].height)]
    /\ insDone' = [insDone EXCEPT ![b][i] = 2]
    /\ UNCHANGED <<now, counts, runAlive, del_chan, batches, retDone, wpc, wcur>>
    /\ UNCHANGED notMap

\* A recv that fails as soon as the sender is gone, whatever is still queued.
WorkerRecvClosedFirst ==
    /\ wpc = "recv"
    /\ IF ~runAlive
       THEN /\ wpc' = "exited"
            /\ UNCHANGED <<wcur, del_chan>>
       ELSE /\ del_chan # <<>>
            /\ wcur' = Head(del_chan)
            /\ del_chan' = Tail(del_chan)
            /\ wpc' = "sleep"
    /\ UNCHANGED <<now, counts, heights, runAlive, batches, insDone, retDone>>
    /\ UNCHANGED notMap

\* A recv that fails whenever the channel is empty.
WorkerRecvEmptyExit ==
    /\ wpc = "recv"
    /\ IF del_chan # <<>>
       THEN /\ wcur' = Head(del_chan)
            /\ del_chan' = Tail(del_chan)
            /\ wpc' = "sleep"
       ELSE /\ wpc' = "exited"
            /\ UNCHANGED <<wcur, del_chan>>
    /\ UNCHANGED <<now, counts, heights, runAlive, batches, insDone, retDone>>
    /\ UNCHANGED notMap

\* let Ok((next_duration, new_points)) = del_recv.recv() else { break };
\* recv blocks while the channel is empty and a sender exists.
WorkerRecv ==
    /\ wpc = "recv"
    /\ IF del_chan # <<>>
       THEN /\ wcur' = Head(del_chan)
            /\ del_chan' = Tail(del_chan)
            /\ wpc' = "sleep"
       ELSE /\ ~runAlive
            /\ wpc' = "exited"
            /\ UNCHANGED <<wcur, del_chan>>
    /\ UNCHANGED <<now, counts, heights, runAlive, batches, insDone, retDone>>
    /\ UNCHANGED notMap

\* A sleep that returns at once.
WorkerSleepNone ==
    /\ wpc = "sleep"
    /\ wpc' = "sub"
    /\ UNCHANGED <<now, counts, heights, runAlive, del_chan, batches, insDone, retDone, wcur>>
    /\ UNCHANGED notMap

\* sleeper.sleep(next_duration.saturating_sub(start2.elapsed())) returns once
\* the due time has been reached, at once when it already has.
WorkerSleep ==
    /\ wpc = "sleep"
    /\ now >= batches[wcur].due
    /\ wpc' = "sub"
    /\ UNCHANGED <<now, counts, heights, runAlive, del_chan, batches, insDone, retDone, wcur>>
    /\ UNCHANGED notMap

\* counts2[p.index].fetch_sub(1, Relaxed)
WorkerSubCount(i) ==
    /\ wpc = "sub"
    /\ retDone[wcur][i] = 0
    /\ counts' = [counts EXCEPT ![batches[wcur].pts[i].index] = fetch_sub(@, 1)]
    /\ retDone' = [retDone EXCEPT ![wcur][i] = 1]
    /\ UNCHANGED <<now, heights, runAlive, del_chan, batches, insDone, wpc, wcur>>
    /\ UNCHANGED notMap

\* heights2[p.index].fetch_sub(p.height, Relaxed)
WorkerSubHeight(i) ==
    /\ wpc = "sub"
    /\ retDone[wcur][i] = 1
    /\ heights' = [heights EXCEPT ![batches[wcur].pts[i].index] =
                                        fetch_sub(@, batches[wcur].pts[i].height)]
    /\ retDone' = [retDone EXCEPT ![wcur][i] = 2]
    /\ UNCHANGED <<now, counts, runAlive, del_chan, batches, insDone, wpc, wcur>>
    /\ UNCHANGED notMap

\* for_each has visited every point: round the worker's loop
WorkerLoop ==
    /\ wpc = "sub"
    /\ \A i \in PointsOf(wcur) : retDone[wcur][i] = 2
    /\ wpc' = "recv"
    /\ UNCHANGED <<now, counts, heights, runAlive, del_chan, batches, insDone, retDone, wcur>>
    /\ UNCHANGED notMap

\* The supervisor aborts the Costmap::run task at points_sub.recv().await:
\* del_sender is dropped with it.
CancelRun ==
    /\ runAlive
    /\ runAlive' = FALSE
    /\ UNCHANGED <<now, counts, heights, del_chan, batches, insDone, retDone, wpc, wcur>>
    /\ UNCHANGED notMap

NextMap ==
    \/ Tick
    \/ \E cloud \in CloudSet : Ingest(cloud)
    \/ \E b \in DOMAIN batches : \E i \in PointsOf(b) : InsertCount(b, i)
    \/ \E b \in DOMAIN batches : \E i \in PointsOf(b) : InsertHeight(b, i)
    \/ WorkerRecv
    \/ WorkerSleep
    \/ \E i \in PointsOf(wcur) : WorkerSubCount(i)
    \/ \E i \in PointsOf(wcur) : WorkerSubHeight(i)
    \/ WorkerLoop
    \/ CancelRun

SpecMap == Init /\ [][NextMap]_vars

(***************************************************************************)
(* Costmap ingestion and snapshot on their own: one point goes through the *)
(* closure of add_points_sub, its measurement is inserted and retracted,    *)
(* and get_costmap is called in between.                                    *)
(***************************************************************************)
\* f32::round: to the nearest integer, halves away from zero (n / d, d > 0)
Round(n, d) ==
    IF n >= 0 THEN (2 * n + d) \div (2 * d) ELSE 0 - ((2 * (0 - n) + d) \div (2 * d))

\* f32::floor of n / d, d > 0
Floor(n, d) == n \div d

\* `as usize` on an f32 saturates: negative values become 0
AsUsize(v) == IF v < 0 THEN 0 ELSE IF v >= UsizeMod THEN UsizeMod - 1 ELSE v

\* The closure with the multiplier of x in the index taken as area_width.
PointMeasurementOfWidth(g, point) ==
    LET height == AsUsize(Round(point.y, g.height_step))
        x == Round(point.x + g.x_offset, g.cell_width)
        y == Round(point.z + g.y_offset, g.cell_width)
    IN IF x < 0 \/ y < 0 THEN <<>>
       ELSE IF x >= g.area_width \/ y >= g.area_length THEN <<>>
       ELSE << [index |-> x * g.area_width + y, height |-> height] >>

\* The closure with the cell coordinates floored.
PointMeasurementOfFloor(g, point) ==
    LET height == AsUsize(Round(point.y, g.height_step))
        x == Floor(point.x + g.x_offset, g.cell_width)
        y == Floor(point.z + g.y_offset, g.cell_width)
    IN IF x < 0 \/ y < 0 THEN <<>>
       ELSE IF x >= g.area_width \/ y >= g.area_length THEN <<>>
       ELSE << [index |-> x * g.area_length + y, height |-> height] >>

\* The filter_map closure of add_points_sub on one point: None or
\* Some(PointMeasurement { index: x * area_length + y, height }).
PointMeasurementOf(g, point) ==
    LET height == AsUsize(Round(point.y, g.height_step))
        x == Round(point.x + g.x_offset, g.cell_width)
        y == Round(point.z + g.y_offset, g.cell_width)
    IN IF x < 0 \/ y < 0 THEN <<>>
       ELSE IF x >= g.area_width \/ y >= g.area_length THEN <<>>
       ELSE << [index |-> x * g.area_length + y, height |-> height] >>

RECURSIVE add_points_sub(_, _)
\* x.into_par_iter().filter_map(...).collect(): the measurements of the points
\* that are kept, in the order of the cloud
add_points_sub(g, cloud) ==
    IF cloud = <<>> THEN <<>>
    ELSE PointMeasurementOf(g, Head(cloud)) \o add_points_sub(g, Tail(cloud))

\* one entry of get_costmap's data: 0.0, or height / count as the fraction num / den
CellCost(i) ==
    IF counts[i] = 0 THEN [num |-> 0, den |-> 1] ELSE [num |-> heights[i], den |-> counts[i]]

\* A matrix whose storage is read row after row.
MatrixRowMajor(nrows, ncols) ==
    [rc \in (0 .. nrows - 1) \X (0 .. ncols - 1) |-> CellCost(rc[1] * ncols + rc[2])]

\* Matrix::from_data(VecStorage::new(Dyn(nrows), Dyn(ncols), data)): VecStorage
\* is column-major, entry (r, c) is data[c * nrows + r]
MatrixFromData(nrows, ncols) ==
    [rc \in (0 .. nrows - 1) \X (0 .. ncols - 1) |-> CellCost(rc[2] * nrows + rc[1])]

\* CostmapRef::get_costmap
get_costmap == MatrixFromData(grid.area_length, grid.area_width)

InitGrid ==
    /\ InitSub /\ InitSup /\ InitPathIdle /\ InitLocIdle /\ InitRest
    /\ grid \in GridSet
    /\ gpoint \in PointSet
    /\ gpm = <<>>
    /\ gmat = <<>>
    /\ gpc = "new"
    /\ counts = [c \in 0 .. grid.area_length * grid.area_width - 1 |-> 0]
    /\ heights = [c \in 0 .. grid.area_length * grid.area_width - 1 |-> 0]
    /\ now = 0 /\ runAlive = TRUE /\ del_chan = <<>> /\ batches = <<>>
    /\ insDone = <<>> /\ retDone = <<>> /\ wpc = "recv" /\ wcur = 0

\* the subscription's map closure runs on the point
MapPoint ==
    /\ gpc = "new"
    /\ gpm' = PointMeasurementOf(grid, gpoint)
    /\ gpc' = "mapped"
    /\ UNCHANGED <<grid, gpoint, gmat, counts, heights>>
    /\ UNCHANGED notGrid

\* the insertion task: counts[p.index].fetch_add(1); heights[p.index].fetch_add(p.height)
InsertPoint ==
    /\ gpc = "mapped" /\ gpm # <<>>
    /\ gpm[1].index \in DOMAIN counts
    /\ counts' = [counts EXCEPT ![gpm[1].index] = fetch_add(@, 1)]
    /\ heights' = [heights EXCEPT ![gpm[1].index] = fetch_add(@, gpm[1].height)]
    /\ gpc' = "inserted"
    /\ UNCHANGED <<grid, gpoint, gpm, gmat>>
    /\ UNCHANGED notGrid

\* the retraction: counts2[p.index].fetch_sub(1); heights2[p.index].fetch_sub(p.height)
RetractPoint ==
    /\ gpc = "inserted"
    /\ counts' = [counts EXCEPT ![gpm[1].index] = fetch_sub(@, 1)]
    /\ heights' = [heights EXCEPT ![gpm[1].index] = fetch_sub(@, gpm[1].height)]
    /\ gpc' = "retracted"
    /\ UNCHANGED <<grid, gpoint, gpm, gmat>>
    /\ UNCHANGED notGrid

\* a client calls get_costmap() on its CostmapRef
Snapshot ==
    /\ gmat' = get_costmap
    /\ UNCHANGED <<grid, gpoint, gpm, gpc, counts, heights>>
    /\ UNCHANGED notGrid

NextGrid ==
    \/ MapPoint
    \/ InsertPoint
    \/ RetractPoint
    \/ Snapshot

SpecGrid == InitGrid /\ [][NextGrid]_vars

(***************************************************************************)
(* Scenario E2: Costmap::run on the 4 x 4 grid, fed the one cloud at t = 0, *)
(* with a client taking snapshots.                                          *)
(***************************************************************************)
InitE2 ==
    /\ InitSub /\ InitSup /\ InitPathIdle /\ InitLocIdle /\ InitRest
    /\ grid = E2Grid
    /\ gpoint = <<>> /\ gpm = <<>> /\ gmat = <<>> /\ gpc = "new"
    /\ counts = [c \in 0 .. grid.area_length * grid.area_width - 1 |-> 0]
    /\ heights = [c \in 0 .. grid.area_length * grid.area_width - 1 |-> 0]
    /\ now = 0 /\ runAlive = TRUE /\ del_chan = <<>> /\ batches = <<>>
    /\ insDone = <<>> /\ retDone = <<>> /\ wpc = "recv" /\ wcur = 0

\* the cloud is pushed at t = 0 and comes out of the subscription mapped
IngestE2 ==
    /\ now = 0 /\ batches = <<>>
    /\ Ingest(add_points_sub(grid, E2Cloud))

NextE2 ==
    \/ Tick
    \/ IngestE2
    \/ \E b \in DOMAIN batches : \E i \in PointsOf(b) : InsertCount(b, i)
    \/ \E b \in DOMAIN batches : \E i \in PointsOf(b) : InsertHeight(b, i)
    \/ WorkerRecv
    \/ WorkerSleep
    \/ \E i \in PointsOf(wcur) : WorkerSubCount(i)
    \/ \E i \in PointsOf(wcur) : WorkerSubHeight(i)
    \/ WorkerLoop
    \/ CancelRun
    \/ Snapshot

SpecE2 == InitE2 /\ [][NextE2]_vars

(***************************************************************************)
(* DirectPathfinder::pathfind, with astar of alg.rs.  One action per round  *)
(* of astar's loop and per round of the smoothing loop: each holds one      *)
(* await on the ObstacleHub.                                                *)
(***************************************************************************)
Abs(n) == IF n < 0 THEN 0 - n ELSE n

\* floor of the square root, as magnitude().to_usize() truncates
Isqrt(n) == CHOOSE k \in 0 .. n : k * k <= n /\ n < (k + 1) * (k + 1)

RECURSIVE SumSeq(_)
SumSeq(q) == IF q = <<>> THEN 0 ELSE Head(q) + SumSeq(Tail(q))

\* Isometry3: p rotated by quarter turns about the y axis
RECURSIVE Rotate(_, _)
Rotate(p, turns) ==
    IF turns = 0 THEN p ELSE Rotate([x |-> p.z, y |-> p.y, z |-> 0 - p.x], turns - 1)

\* from.transform_point(p) = rotation * p + translation
transform_point(iso, p) ==
    LET r == Rotate(p, iso.turns)
    IN [x |-> r.x + iso.t.x, y |-> r.y + iso.t.y, z |-> r.z + iso.t.z]

\* from.inverse_transform_point(p) = rotation^-1 * (p - translation)
inverse_transform_point(iso, p) ==
    Rotate([x |-> p.x - iso.t.x, y |-> p.y - iso.t.y, z |-> p.z - iso.t.z],
           (4 - iso.turns) % 4)

\* (self.filter)(p)
Allowed(c) == pin.world.filter = "all" \/ c \in Box

\* obstacle_hub.query_height for one query: the heights sampled under a cell
Samples(c) == IF c \in DOMAIN pin.world.terrain THEN pin.world.terrain[c] ELSE <<>>

\* the count of heights further than max_height_diff from ref
TooHighCount(hs, ref) == Cardinality({ i \in DOMAIN hs : Abs(hs[i] - ref) > MaxHeightDiff })

\* (nconvert(len) * max_frac).round().to_usize()
Threshold(len) == Round(len * pin.max_frac[1], pin.max_frac[2])

\* heights.iter().sum() / len
MeanHeight(hs) == SumSeq(hs) \div Len(hs)

\* too_high_count >= round(len * max_frac) on a non-empty sample
TooHigh(hs, ref) == hs # <<>> /\ TooHighCount(hs, ref) >= Threshold(Len(hs))

\* the four neighbours, in the order of the array
Neighbours(pos) ==
    << <<pos[1], pos[2] + 1>>, <<pos[1] + 1, pos[2]>>,
       <<pos[1], pos[2] - 1>>, <<pos[1] - 1, pos[2]>> >>

\* DirectPathfinderSafefinder::successors: the heights of the neighbours that
\* pass the filter are zipped with the array of all four neighbours
SafeSuccessors(current) ==
    LET four == Neighbours(current.position)
        queried == SelectSeq(four, Allowed)
    IN [i \in 1 .. Len(queried) |->
          [position |-> four[i],
           height |-> IF Samples(queried[i]) = <<>> THEN current.height
                      ELSE MeanHeight(Samples(queried[i]))]]

\* DirectPathfinderSafefinder::success
SafeSuccess(current) == ~TooHigh(Samples(current.position), current.height)

\* the candidates of DirectPathfinderModule::successors: the neighbours, then
\* end_node's position when it is at most one cardinal step away, filtered
ModuleCandidates(current) ==
    LET dx == end_node.position[1] - current.position[1]
        dy == end_node.position[2] - current.position[2]
        end_pos == IF (dx = 0 /\ Abs(dy) <= 1) \/ (dy = 0 /\ Abs(dx) <= 1)
                   THEN <<end_node.position>> ELSE <<>>
    IN SelectSeq(Neighbours(current.position) \o end_pos, Allowed)

\* DirectPathfinderModule::successors: the candidates that pass the height test
ModuleSuccessors(current) ==
    LET kept == SelectSeq(ModuleCandidates(current),
                          LAMBDA c : ~TooHigh(Samples(c), current.height))
    IN [i \in 1 .. Len(kept) |->
          [position |-> kept[i],
           height |-> IF Samples(kept[i]) = <<>> THEN current.height
                      ELSE MeanHeight(Samples(kept[i]))]]

ModuleRejects(current) ==
    \E i \in DOMAIN ModuleCandidates(current) :
        TooHigh(Samples(ModuleCandidates(current)[i]), current.height)

\* the closure |current| (current.position - end_node.position).magnitude().to_usize()
Heuristic(ph, node) ==
    IF ph = "pre" THEN 0
    ELSE Isqrt((node.position[1] - end_node.position[1]) ^ 2
               + (node.position[2] - end_node.position[2]) ^ 2)

Successors(ph, node) == IF ph = "pre" THEN SafeSuccessors(node) ELSE ModuleSuccessors(node)

Success(ph, node) ==
    IF ph = "pre" THEN SafeSuccess(node) ELSE node.position = end_node.position

\* An order that breaks ties towards the lower cost.
HeapMaxLowerCost(ts) ==
    { e \in ts : \A f \in ts :
          \/ e.estimated_cost < f.estimated_cost
          \/ e.estimated_cost = f.estimated_cost /\ e.cost <= f.cost }

\* Ord for SmallestCostHolder: the greatest entry has the least estimated_cost
\* and, among those, the greatest cost; BinaryHeap::pop takes a greatest entry
HeapMax(ts) ==
    { e \in ts : \A f \in ts :
          \/ e.estimated_cost < f.estimated_cost
          \/ e.estimated_cost = f.estimated_cost /\ e.cost >= f.cost }

\* parents.get_index_of(node): 0-based, -1 when absent (Node compares by position)
IndexOf(ps, pos) ==
    IF \E i \in DOMAIN ps : ps[i].node.position = pos
    THEN (CHOOSE i \in DOMAIN ps : ps[i].node.position = pos) - 1
    ELSE -1

RECURSIVE reverse_pathNoStart(_, _)
\* A walk that stops before the entry that has no parent.
reverse_pathNoStart(ps, i) ==
    IF i < 0 \/ i >= Len(ps) \/ ps[i + 1].parent < 0 THEN <<>>
    ELSE Append(reverse_pathNoStart(ps, ps[i + 1].parent), ps[i + 1].node)

RECURSIVE reverse_path(_, _)
\* the nodes from the start to index i, following the parent indices
reverse_path(ps, i) ==
    IF i < 0 \/ i >= Len(ps) THEN <<>>
    ELSE Append(reverse_path(ps, ps[i + 1].parent), ps[i + 1].node)

\* A push that stores the estimate in the cost field too.
HeapEntryEstimate(ph, node, new_cost, n) ==
    [estimated_cost |-> new_cost + Heuristic(ph, node),
     cost |-> new_cost + Heuristic(ph, node), index |-> n]

\* SmallestCostHolder { estimated_cost: new_cost + h, cost: new_cost, index: n }
HeapEntry(ph, node, new_cost, n) ==
    [estimated_cost |-> new_cost + Heuristic(ph, node), cost |-> new_cost, index |-> n]

RECURSIVE ExpandNotStrict(_, _, _, _, _, _)
\* A loop that also replaces an entry of equal cost.
ExpandNotStrict(ph, succs, ps, ts, index, cost) ==
    IF succs = <<>> THEN [parents |-> ps, to_see |-> ts]
    ELSE LET successor == Head(succs)
             new_cost == cost + 1
             n == IndexOf(ps, successor.position)
         IN IF n < 0
            THEN ExpandNotStrict(ph, Tail(succs),
                        Append(ps, [node |-> successor, parent |-> index, cost |-> new_cost]),
                        ts \cup {HeapEntry(ph, successor, new_cost, Len(ps))},
                        index, cost)
            ELSE IF ps[n + 1].cost >= new_cost
            THEN ExpandNotStrict(ph, Tail(succs),
                        [ps EXCEPT ![n + 1].parent = index, ![n + 1].cost = new_cost],
                        ts \cup {HeapEntry(ph, ps[n + 1].node, new_cost, n)},
                        index, cost)
            ELSE ExpandNotStrict(ph, Tail(succs), ps, ts, index, cost)

RECURSIVE Expand(_, _, _, _, _, _)
\* for (successor, move_cost) in successors { ... }: every move_cost is 1
Expand(ph, succs, ps, ts, index, cost) ==
    IF succs = <<>> THEN [parents |-> ps, to_see |-> ts]
    ELSE LET successor == Head(succs)
             new_cost == cost + 1
             n == IndexOf(ps, successor.position)
         IN IF n < 0
            THEN Expand(ph, Tail(succs),
                        Append(ps, [node |-> successor, parent |-> index, cost |-> new_cost]),
                        ts \cup {HeapEntry(ph, successor, new_cost, Len(ps))},
                        index, cost)
            ELSE IF ps[n + 1].cost > new_cost
            THEN Expand(ph, Tail(succs),
                        [ps EXCEPT ![n + 1].parent = index, ![n + 1].cost = new_cost],
                        ts \cup {HeapEntry(ph, ps[n + 1].node, new_cost, n)},
                        index, cost)
            ELSE Expand(ph, Tail(succs), ps, ts, index, cost)

\* One round of `while let Some(..) = to_see.pop()` for the popped entry e:
\* Some((path, cost)) when the node succeeds, else the heap and map after the
\* round (untouched, but for the pop, when the entry is stale).
AstarRound(ph, e) ==
    LET ent == parents[e.index + 1]
    IN IF Success(ph, ent.node)
       THEN [kind |-> "some", path |-> reverse_path(parents, e.index), cost |-> e.cost]
       ELSE IF e.cost > ent.cost
       THEN [kind |-> "cont", parents |-> parents, to_see |-> to_see \ {e}, expanded |-> FALSE]
       ELSE LET r == Expand(ph, Successors(ph, ent.node), parents, to_see \ {e},
                            e.index, e.cost)
            IN [kind |-> "cont", parents |-> r.parents, to_see |-> r.to_see,
                expanded |-> TRUE]

\* the Point3 of a node: (position.x * resolution, height, position.y * resolution)
PointOf(node) ==
    [x |-> node.position[1] * Resolution, y |-> node.height, z |-> node.position[2] * Resolution]

\* `end` after end = from.inverse_transform_point(&end)
EndLocal == inverse_transform_point(pin.from, pin.end)

\* DirectPathfinder::traverse_to with the identity isometry: count =
\* floor(distance / resolution), one query per i in 1..count at from + travel * i
\* (travel of length 1.0), and the closure looks at heights[0], the sample at
\* i = 1.  Without a query (count <= 1) nothing refuses the segment.
traverse_to(from, to) ==
    LET dx == to.x - from.x
        dy == to.y - from.y
        dz == to.z - from.z
        d2 == dx * dx + dy * dy + dz * dz
        \* round(d / distance): the cell offset of the sample along one axis
        StepOf(d) == IF 4 * d * d >= d2 THEN (IF d > 0 THEN 1 ELSE -1) ELSE 0
        cell == << Round(from.x, Resolution) + StepOf(dx),
                   Round(from.z, Resolution) + StepOf(dz) >>
    IN IF d2 < (2 * Resolution) * (2 * Resolution) THEN TRUE
       ELSE ~TooHigh(Samples(cell), from.y)

\* what `while let Some(SmallestCostHolder { cost, index, .. }) = to_see.pop()`
\* took: the entry, whether `cost > c` holds of it, and the entries left behind
\* and, when the round went on to module.successors(node, ..), what it emitted
Popped(ph, e) ==
    LET node == parents[e.index + 1].node
        expanded == ~Success(ph, node) /\ ~(e.cost > parents[e.index + 1].cost)
    IN [entry |-> e,
        stale |-> e.cost > parents[e.index + 1].cost,
        rest |-> { <<f.estimated_cost, f.cost>> : f \in to_see \ {e} },
        phase |-> ph,
        node |-> node,
        expanded |-> expanded,
        emitted |-> IF expanded THEN Successors(ph, node) ELSE <<>>]

\* astar's set-up: the heap and the map hold the start node at cost 0
AstarStart(node) ==
    /\ to_see' = {[estimated_cost |-> 0, cost |-> 0, index |-> 0]}
    /\ parents' = <<[node |-> node, parent |-> -1, cost |-> 0]>>
    /\ rounds' = 0
    /\ popped' = <<>>

\* The call itself: the goal is taken into the frame of `from` and the
\* safe-start astar is set up at the origin.
PathfindCall ==
    /\ apc = "call"
    /\ apc' = "pre"
    /\ AstarStart(start_node)
    /\ UNCHANGED <<pin, pre_path, start_node, end_node, distance, rejected, path, pnext,
                   new_path, start, last, pres>>
    /\ UNCHANGED notPath

\* end_node, and the set-up of the main astar from node
MainStart(node) ==
    /\ end_node' = [position |-> << Round(EndLocal.x, Resolution), Round(EndLocal.z, Resolution) >>,
                    height |-> EndLocal.y]
    /\ AstarStart(node)
    /\ apc' = "main"

\* A round of the safe-start astar.  Some(path): start_node = path.pop(),
\* pre_path = path.  None (the heap is empty): start_node stays.
PreRound ==
    /\ apc = "pre"
    /\ IF to_see = {}
       THEN /\ MainStart(start_node)
            /\ UNCHANGED <<start_node, pre_path>>
       ELSE \E e \in HeapMax(to_see) :
              LET r == AstarRound("pre", e)
              IN IF r.kind = "some"
                 THEN /\ start_node' = r.path[Len(r.path)]
                      /\ pre_path' = SubSeq(r.path, 1, Len(r.path) - 1)
                      /\ MainStart(r.path[Len(r.path)])
                 ELSE /\ to_see' = r.to_see
                      /\ parents' = r.parents
                      /\ rounds' = rounds + 1
                      /\ popped' = Popped("pre", e)
                      /\ UNCHANGED <<start_node, pre_path, end_node, apc>>
    /\ UNCHANGED <<pin, distance, rejected, path, pnext, new_path, start, last, pres>>
    /\ UNCHANGED notPath

\* A fallback that answers an exhausted search with the straight segment.
MainResultStraight(result) ==
    LET post == IF result.kind = "none" THEN <<start_node, end_node>>
                ELSE IF Len(result.path) = 1 THEN Append(result.path, end_node)
                ELSE result.path
        pts == [i \in 1 .. Len(pre_path) + Len(post) |->
                   PointOf((pre_path \o post)[i])]
    IN /\ distance' = IF result.kind = "none" THEN distance ELSE result.cost
       /\ path' = pts
       /\ start' = pts[1]
       /\ new_path' = <<pts[1]>>
       /\ last' = pts[2]
       /\ pnext' = 3
       /\ apc' = "smooth"
       /\ UNCHANGED pres

\* let (mut post_path, _distance) = result?;  then the set-up of the
\* smoothing loop: start = path[0], new_path = [start], last = path[1]
MainResult(result) ==
    IF result.kind = "none"
    THEN /\ pres' = <<"None">>
         /\ apc' = "done"
         /\ UNCHANGED <<distance, path, pnext, new_path, start, last>>
    ELSE LET post == IF Len(result.path) = 1 THEN Append(result.path, end_node)
                     ELSE result.path
             pts == [i \in 1 .. Len(pre_path) + Len(post) |->
                        PointOf((pre_path \o post)[i])]
         IN /\ distance' = result.cost
            /\ path' = pts
            /\ start' = pts[1]
            /\ new_path' = <<pts[1]>>
            /\ last' = pts[2]
            /\ pnext' = 3
            /\ apc' = "smooth"
            /\ UNCHANGED pres

\* A round of the main astar.
MainRound ==
    /\ apc = "main"
    /\ IF to_see = {}
       THEN /\ MainResult([kind |-> "none"])
            /\ UNCHANGED <<to_see, parents, rounds, popped, rejected>>
       ELSE \E e \in HeapMax(to_see) :
              LET r == AstarRound("main", e)
              IN IF r.kind = "some"
                 THEN /\ MainResult(r)
                      /\ popped' = Popped("main", e)
                      /\ UNCHANGED <<to_see, parents, rounds, rejected>>
                 ELSE /\ to_see' = r.to_see
                      /\ parents' = r.parents
                      /\ rounds' = rounds + 1
                      /\ popped' = Popped("main", e)
                      /\ rejected' = (rejected \/ (r.expanded
                                         /\ ModuleRejects(parents[e.index + 1].node)))
                      /\ UNCHANGED <<apc, distance, path, pnext, new_path, start, last, pres>>
    /\ UNCHANGED <<pin, pre_path, start_node, end_node>>
    /\ UNCHANGED notPath

\* for next in path { if traverse_to(start, next) { last = next }
\*                    else { new_path.push(last); start = last; last = next } }
SmoothRound ==
    /\ apc = "smooth"
    /\ pnext <= Len(path)
    /\ LET next == path[pnext]
       IN IF traverse_to(start, next)
          THEN /\ last' = next
               /\ UNCHANGED <<new_path, start>>
          ELSE /\ new_path' = Append(new_path, last)
               /\ start' = last
               /\ last' = next
    /\ pnext' = pnext + 1
    /\ UNCHANGED <<pin, apc, to_see, parents, rounds, popped, pre_path, start_node, end_node,
                   distance, rejected, path, pres>>
    /\ UNCHANGED notPath

\* An ending that pushes the last grid waypoint instead of the goal.
SmoothDoneLast ==
    /\ apc = "smooth"
    /\ pnext > Len(path)
    /\ new_path' = Append(new_path, last)
    /\ pres' = <<"Some", [i \in 1 .. Len(new_path) + 1 |->
                            transform_point(pin.from, Append(new_path, last)[i])]>>
    /\ apc' = "done"
    /\ UNCHANGED <<pin, to_see, parents, rounds, popped, pre_path, start_node, end_node, distance,
                   rejected, path, pnext, start, last>>
    /\ UNCHANGED notPath

\* new_path.push(end); every point goes through from.transform_point; Some(new_path)
SmoothDone ==
    /\ apc = "smooth"
    /\ pnext > Len(path)
    /\ new_path' = Append(new_path, EndLocal)
    /\ pres' = <<"Some", [i \in 1 .. Len(new_path) + 1 |->
                            transform_point(pin.from, Append(new_path, EndLocal)[i])]>>
    /\ apc' = "done"
    /\ UNCHANGED <<pin, to_see, parents, rounds, popped, pre_path, start_node, end_node, distance,
                   rejected, path, pnext, start, last>>
    /\ UNCHANGED notPath

\* pathfind is called with a pose, a goal and a world
InitPath ==
    /\ InitSub /\ InitMap /\ InitSup /\ InitLocIdle /\ InitRest
    /\ pin \in { [from |-> iso, end |-> transform_point(iso, g), world |-> w,
                   max_frac |-> <<MaxFracNum, MaxFracDen>>] :
                    iso \in IsoSet, g \in GoalSet, w \in WorldSet }
               \cup RidgeCalls \cup SparseCalls \cup TrapCalls
    /\ apc = "call"
    /\ to_see = {}
    /\ parents = <<>>
    /\ rounds = 0
    /\ popped = <<>>
    /\ pre_path = <<>>
    /\ start_node = [position |-> <<0, 0>>, height |-> 0]
    /\ end_node = [position |-> <<0, 0>>, height |-> 0]
    /\ distance = -1
    /\ rejected = FALSE
    /\ path = <<>>
    /\ pnext = 0
    /\ new_path = <<>>
    /\ start = <<>>
    /\ last = <<>>
    /\ pres = <<>>

NextPath ==
    \/ PathfindCall
    \/ PreRound
    \/ MainRound
    \/ SmoothRound
    \/ SmoothDone

SpecPath == InitPath /\ [][NextPath]_vars

(***************************************************************************)
(* DirectPathfinder::traverse_to, called on its own with the identity      *)
(* isometry, along one axis.                                               *)
(***************************************************************************)
\* the length 1.0 of `travel` after travel.unscale_mut(distance), in halves
UnitLength == 2

\* obstacle_hub.query_height for one query of traverse_to
LineSamples(x) == IF x \in DOMAIN tin.terrain THEN tin.terrain[x] ELSE <<>>

\* count = floor(distance / resolution); one query for each i of 1..count,
\* at from + travel * i
TraverseQueries(from, to, resolution) ==
    LET magnitude == Abs(to - from)
        travel == IF to > from THEN UnitLength ELSE 0 - UnitLength
        count == magnitude \div resolution
    IN [i \in 1 .. count - 1 |-> from + travel * i]

\* the closure looks at heights[0]: None (the segment passes) when it is
\* empty or not too high; without a query nothing refuses the segment
TraverseVerdict(queries, height) ==
    IF queries = <<>> THEN TRUE ELSE ~TooHigh(LineSamples(queries[1]), height)

\* the queries are built and handed to the hub
TraverseCall ==
    /\ tpc = "call"
    /\ tqueries' = TraverseQueries(tin.from, tin.to, tin.resolution)
    /\ tpc' = "query"
    /\ UNCHANGED <<tin, tres>>
    /\ UNCHANGED notTrav

\* the hub answers and traverse_to returns .is_none()
TraverseReturn ==
    /\ tpc = "query"
    /\ tres' = <<TraverseVerdict(tqueries, 0)>>
    /\ tpc' = "done"
    /\ UNCHANGED <<tin, tqueries>>
    /\ UNCHANGED notTrav

InitTraverse ==
    /\ InitSub /\ InitMap /\ InitSup /\ InitPathIdle /\ InitLocIdle /\ InitOnce
    /\ tpc = "call"
    /\ tin \in TraverseSet
    /\ tqueries = <<>>
    /\ tres = <<>>

NextTraverse == TraverseCall \/ TraverseReturn

SpecTraverse == InitTraverse /\ [][NextTraverse]_vars

(***************************************************************************)
(* RunOnce (ares-bt/src/action.rs): one action per call of run,            *)
(* run_infallible and reset on one RunOnce value.                          *)
(***************************************************************************)
\* what (self.func)() returned, or that func was not called
Called(kind, status, value) == [call |-> kind, status |-> status, value |-> value]

\* A run that reports Success without clearing ran.
RunStaysRan(v) ==
    /\ Len(returned) < MaxCalls
    /\ IF ran
       THEN /\ ran' = ran
            /\ invoked' = invoked
            /\ returned' = Append(returned, Called("run", "Success", 0))
       ELSE /\ ran' = TRUE
            /\ invoked' = invoked + 1
            /\ returned' = Append(returned, Called("run", "Running", v))
    /\ armed' = FALSE
    /\ UNCHANGED notOnce

\* Behavior::run; v is what func returns if it is called
Run(v) ==
    /\ Len(returned) < MaxCalls
    /\ IF ran
       THEN /\ ran' = FALSE
            /\ invoked' = invoked
            /\ returned' = Append(returned, Called("run", "Success", 0))
       ELSE /\ ran' = TRUE
            /\ invoked' = invoked + 1
            /\ returned' = Append(returned, Called("run", "Running", v))
    /\ armed' = FALSE
    /\ UNCHANGED notOnce

\* InfallibleBehavior::run_infallible
RunInfallible(v) ==
    /\ Len(returned) < MaxCalls
    /\ IF ran
       THEN /\ ran' = FALSE
            /\ invoked' = invoked
            /\ returned' = Append(returned, Called("run_infallible", "Success", 0))
       ELSE /\ ran' = TRUE
            /\ invoked' = invoked + 1
            /\ returned' = Append(returned, Called("run_infallible", "Running", v))
    /\ armed' = FALSE
    /\ UNCHANGED notOnce

\* CancelSafe::reset
Reset ==
    /\ Len(returned) < MaxCalls
    /\ ran' = FALSE
    /\ returned' = Append(returned, Called("reset", "none", 0))
    /\ armed' = TRUE
    /\ UNCHANGED invoked
    /\ UNCHANGED notOnce

NextOnce ==
    \/ \E v \in FuncSet : Run(v)
    \/ \E v \in FuncSet : RunInfallible(v)
    \/ Reset

SpecOnce == Init /\ [][NextOnce]_vars

(***************************************************************************)
(* run_localizer: the select, the observation step of each stream, and the *)
(* block (tables and assertions, resampling, likelihood table, estimate).   *)
(* The sensor frames are taken in the frame of the robot base and without   *)
(* a calibration.                                                           *)
(***************************************************************************)
Dims == {"position", "orientation", "linear_velocity", "angular_velocity",
         "linear_acceleration"}

\* the weight field of a dimension
WeightOf == [position |-> "position_weight", orientation |-> "orientation_weight",
             linear_velocity |-> "linear_velocity_weight",
             angular_velocity |-> "angular_velocity_weight",
             linear_acceleration |-> "linear_acceleration_weight"]

RECURSIVE Gcd(_, _)
Gcd(a, b) == IF b = 0 THEN a ELSE Gcd(b, a % b)

\* the fraction n / d (d > 0) in lowest terms
Rat(n, d) == LET g == Gcd(Abs(n), d) IN << n \div g, d \div g >>
RAdd(x, y) == Rat(x[1] * y[2] + y[1] * x[2], x[2] * y[2])
RSub(x, y) == Rat(x[1] * y[2] - y[1] * x[2], x[2] * y[2])
RMul(x, y) == Rat(x[1] * y[1], x[2] * y[2])
\* x / y for y > 0
RDiv(x, y) == Rat(x[1] * y[2], x[2] * y[1])
RLe(x, y) == x[1] * y[2] <= y[1] * x[2]
RLt(x, y) == x[1] * y[2] < y[1] * x[2]

RECURSIVE RSum(_)
RSum(q) == IF q = <<>> THEN <<0, 1>> ELSE RAdd(Head(q), RSum(Tail(q)))

\* let default_weight = N::one() / nconvert(bb.point_count.get())
default_weight == Rat(1, NumParticles)

minimum_unnormalized_weight == Rat(MinWeightNum, MinWeightDen)

\* gravity(), along the modelled coordinate
Gravity == 0

\* normal(0, std_dev, x) for the one non-zero variance: the density falls
\* with the error and is 0 (underflow) from two units on
normal(x) == IF x = 0 THEN <<1, 1>> ELSE IF x = 1 THEN <<1, 2>> ELSE <<0, 1>>

\* a particle as the seeding makes it: every weight is default_weight
Seeded(seed) ==
    [position |-> seed.position, position_weight |-> default_weight,
     orientation |-> seed.orientation, orientation_weight |-> default_weight,
     linear_velocity |-> seed.linear_velocity, linear_velocity_weight |-> default_weight,
     angular_velocity |-> seed.angular_velocity, angular_velocity_weight |-> default_weight,
     linear_acceleration |-> seed.linear_acceleration,
     linear_acceleration_weight |-> default_weight]

\* the weights of dimension d, by particle
Weights(ps, d) == [i \in 1 .. Len(ps) |-> ps[i][WeightOf[d]]]

\* particles.par_iter().map(|p| p.<d>_weight).sum()
WeightSum(ps, d) == RSum(Weights(ps, d))

\* the orders par_sort_unstable_by can leave: ascending in the weight of d
SortedOrders(ps, d) ==
    { f \in [1 .. Len(ps) -> 1 .. Len(ps)] :
        /\ \A i, j \in 1 .. Len(ps) : i # j => f[i] # f[j]
        /\ \A i \in 1 .. Len(ps) - 1 : RLe(ps[f[i]][WeightOf[d]], ps[f[i + 1]][WeightOf[d]]) }

\* (nconvert(particles.len()) * bb.undeprivation_factor).ceil()
UndeprivationCount(n) == (n * UndeprivationNum + UndeprivationDen - 1) \div UndeprivationDen

\* if sum <= bb.minimum_unnormalized_weight
GuardFires(sum) == RLe(sum, minimum_unnormalized_weight)

\* A normalisation that divides by the sum found before the guard.
DivisorOld(sum) == IF sum[1] = 0 THEN minimum_unnormalized_weight ELSE sum

\* the divisor of the normalisation: sum, or the minimum once the guard ran
Divisor(sum) == IF GuardFires(sum) THEN minimum_unnormalized_weight ELSE sum

\* A zero-variance branch that leaves the weights as they are.
OverwriteKeepWeight(ps, d, value) == [i \in 1 .. Len(ps) |-> [ps[i] EXCEPT ![d] = value]]

\* the branch of variance == 0: the value is overwritten, the weight reset
Overwrite(ps, d, value) ==
    [i \in 1 .. Len(ps) |-> [ps[i] EXCEPT ![d] = value, ![WeightOf[d]] = default_weight]]

\* A guard that adds nothing to the particles it picks.
CorrectiveWeightNone(sum, count) == <<0, 1>>

\* let corrective_weight = (bb.minimum_unnormalized_weight - sum) / count
CorrectiveWeight(sum, count) == RDiv(RSub(minimum_unnormalized_weight, sum), <<count, 1>>)

\* what an observation step found: the sum, whether the guard ran, and the
\* weights before the guard and after the step, in the order the step left
Found(d, variance, sum, guard, before, ps) ==
    [dim |-> d, variance |-> variance, sum |-> sum, guard |-> guard, before |-> before,
     after |-> Weights(ps, d)]

\* The observation step of one dimension: the set of its outcomes.
Observe(ps, d, value, variance) ==
    IF variance = 0
    THEN { [particles |-> Overwrite(ps, d, value),
            found |-> Found(d, 0, <<0, 1>>, FALSE, <<>>, Overwrite(ps, d, value))] }
    ELSE LET mult == [i \in 1 .. Len(ps) |->
                        [ps[i] EXCEPT ![WeightOf[d]] = RMul(@, normal(Abs(ps[i][d] - value)))]]
             sum == WeightSum(mult, d)
             count == UndeprivationCount(Len(ps))
             corrective_weight == CorrectiveWeight(sum, count)
             \* the guard's work for a sorted order f and the draws jit
             undeprived(f, jit) ==
                 [i \in 1 .. Len(ps) |->
                    IF i <= count
                    THEN [mult[f[i]] EXCEPT
                            ![d] = value + jit[i],
                            ![WeightOf[d]] = RDiv(RAdd(@, corrective_weight), Divisor(sum))]
                    ELSE [mult[f[i]] EXCEPT ![WeightOf[d]] = RDiv(@, Divisor(sum))]]
             normalized == [i \in 1 .. Len(ps) |->
                              [mult[i] EXCEPT ![WeightOf[d]] = RDiv(@, Divisor(sum))]]
         IN IF GuardFires(sum)
            THEN { [particles |-> undeprived(f, jit),
                    found |-> Found(d, variance, sum, TRUE,
                                    [i \in 1 .. Len(ps) |-> mult[f[i]][WeightOf[d]]],
                                    undeprived(f, jit))] :
                   f \in SortedOrders(mult, d),
                   jit \in [1 .. (IF count < Len(ps) THEN count ELSE Len(ps)) -> JitterSet] }
            ELSE { [particles |-> normalized,
                    found |-> Found(d, variance, sum, FALSE, <<>>, normalized)] }

\* the select is waiting and the bound on the iterations allows another one
Selecting == lpc = "select" /\ iterations < MaxIterations

\* the zero rotation: UnitQuaternion::default()
identity_rotation == <<0, 1>>

\* bb.robot_base when run_localizer is entered: the rig's pose, turned away
\* from the start orientation of the particles
StartBase ==
    [translation |-> <<0, 1>>, rotation |-> <<1, 1>>, linear_velocity |-> <<0, 1>>]

\* an iteration begins: no block run, nothing written or logged yet, and
\* RobotBase holds the rotation of the iteration before
NoBlock ==
    [blocks |-> 0, writes |-> 0, errors |-> {}, angular_velocity |-> identity_rotation,
     held |-> robot_base.rotation]

\* the select took a branch other than recalibration: the block is next
ToBlock(ps, branch, value, found) ==
    /\ particles' = ps
    /\ lobs' = [branch |-> branch, value |-> value, found |-> found]
    /\ lblock' = NoBlock
    /\ iterations' = iterations + 1
    /\ lpc' = "block"
    /\ UNCHANGED <<waited, delta, tables, cursor, robot_base, likelihood_table>>
    /\ UNCHANGED notLoc

\* time passes while the select waits; sleep(bb.max_delta) ends the wait
LocTick ==
    /\ lpc = "select"
    /\ waited < MaxDelta
    /\ waited' = waited + 1
    /\ UNCHANGED <<lpc, particles, delta, tables, cursor, robot_base, likelihood_table,
                   iterations, lobs, lblock>>
    /\ UNCHANGED notLoc

\* () = bb.recalibrate_sub.recv() => { break; }  then bb.into()
Recalibrate ==
    /\ lpc = "select"
    /\ lpc' = "returned"
    /\ lobs' = [branch |-> "recalibrate", value |-> 0, found |-> <<>>]
    /\ lblock' = NoBlock
    /\ UNCHANGED <<particles, waited, delta, tables, cursor, robot_base, likelihood_table,
                   iterations>>
    /\ UNCHANGED notLoc

\* () = tokio::time::sleep(bb.max_delta) => {}
Timeout ==
    /\ Selecting
    /\ waited = MaxDelta
    /\ ToBlock(particles, "timeout", 0, <<>>)

\* frame = bb.imu_sub.recv(): linear_acceleration, then angular_velocity
ObserveImu(acceleration, acceleration_variance, angular_velocity, angular_velocity_variance) ==
    /\ Selecting
    /\ \E a \in Observe(particles, "linear_acceleration", acceleration, acceleration_variance) :
      \E w \in Observe(a.particles, "angular_velocity", angular_velocity,
                        angular_velocity_variance) :
        ToBlock(w.particles, "imu", acceleration, <<a.found, w.found>>)

\* frame = bb.position_sub.recv()
ObservePosition(position, variance) ==
    /\ Selecting
    /\ \E r \in Observe(particles, "position", position, variance) :
        ToBlock(r.particles, "position", position, <<r.found>>)

\* frame = bb.velocity_sub.recv()
ObserveVelocity(velocity, variance) ==
    /\ Selecting
    /\ \E r \in Observe(particles, "linear_velocity", velocity, variance) :
        ToBlock(r.particles, "velocity", velocity, <<r.found>>)

\* frame = bb.orientation_sub.recv()
ObserveOrientation(orientation, variance) ==
    /\ Selecting
    /\ \E r \in Observe(particles, "orientation", orientation, variance) :
        ToBlock(r.particles, "orientation", orientation, <<r.found>>)

\* assert!((running_weight - N::one()).abs() < nconvert(1e-4))
AssertHolds(sum) == Abs(sum[1] - sum[2]) * 10000 < sum[2]

\* The start of the block: delta, start += delta_duration, the five tables
\* and their assertions.  A failed assertion is a panic of the task.
BuildTables ==
    /\ lpc = "block"
    /\ delta' = waited
    /\ waited' = 0
    /\ tables' = particles
    /\ cursor' = 1
    /\ IF \A d \in Dims : AssertHolds(WeightSum(particles, d))
       THEN /\ lpc' = "resample"
            /\ lblock' = lblock
       ELSE /\ lpc' = "panicked"
            /\ lblock' = [lblock EXCEPT !.blocks = @ + 1]
    /\ UNCHANGED <<particles, robot_base, likelihood_table, iterations, lobs>>
    /\ UNCHANGED notLoc

\* the entries `for (value, weight) in table.iter().rev() { if sample >= weight`
\* can stop at for a sample in [0, 1): the last entry whose running weight
\* is at most the sample
Sampled(d) ==
    LET running(i) == RSum(SubSeq(Weights(tables, d), 1, i - 1))
    IN { i \in 1 .. Len(tables) :
           /\ RLt(running(i), <<1, 1>>)
           /\ i < Len(tables) => RLt(running(i), running(i + 1)) }

\* The resampling of one particle from the tables: each draw picks an entry
\* of a table, each jitter an offset.
Resample ==
    /\ lpc = "resample"
    /\ cursor <= Len(particles)
    /\ LET velocities == { tables[lv].linear_velocity
                             + (tables[la].linear_acceleration - Gravity) * delta :
                           lv \in Sampled("linear_velocity"),
                           la \in Sampled("linear_acceleration") }
           positions == { tables[ps].position + tables[pv].linear_velocity * delta :
                          ps \in Sampled("position"), pv \in Sampled("linear_velocity") }
           orientations == { tables[av].angular_velocity * delta + tables[o].orientation :
                             o \in Sampled("orientation"), av \in Sampled("angular_velocity") }
       IN \E v \in velocities, x \in positions, o \in orientations,
             scale \in DriftSet, angle \in DriftSet :
             particles' = [particles EXCEPT ![cursor] =
                 [@ EXCEPT !.linear_velocity = v,
                           !.position = x,
                           !.linear_acceleration = @ + scale,
                           !.orientation = o,
                           !.angular_velocity = angle + @]]
    /\ cursor' = cursor + 1
    /\ UNCHANGED <<lpc, waited, delta, tables, robot_base, likelihood_table, iterations,
                   lobs, lblock>>
    /\ UNCHANGED notLoc

\* (bb.likelihood_table.<d>)(&mut p.<d>)
Likelihood(d, value) ==
    IF likelihood_table[d] = "one" THEN <<1, 1>>
    ELSE IF likelihood_table[d] = "near" THEN (IF Abs(value) <= 1 THEN <<1, 1>> ELSE <<0, 1>>)
    ELSE IF value = 0 THEN <<1, 1>> ELSE <<1, 2>>

\* p.<d>_weight *= (bb.likelihood_table.<d>)(&mut p.<d>), for the five dimensions
ApplyLikelihood(ps) ==
    [i \in 1 .. Len(ps) |->
       [ps[i] EXCEPT
          !.position_weight = RMul(@, Likelihood("position", ps[i].position)),
          !.linear_velocity_weight =
              RMul(@, Likelihood("linear_velocity", ps[i].linear_velocity)),
          !.linear_acceleration_weight =
              RMul(@, Likelihood("linear_acceleration", ps[i].linear_acceleration)),
          !.angular_velocity_weight =
              RMul(@, Likelihood("angular_velocity", ps[i].angular_velocity)),
          !.orientation_weight = RMul(@, Likelihood("orientation", ps[i].orientation))]]

\* if <d>_sum != N::zero() { p.<d>_weight /= <d>_sum }
DivideIfNonZero(w, sum) == IF sum[1] # 0 THEN RDiv(w, sum) ELSE w

\* the normalisation of the five dimensions by the sums of the reduce
Normalize(ps) ==
    LET pos_sum == WeightSum(ps, "position")
        vel_sum == WeightSum(ps, "linear_velocity")
        accel_sum == WeightSum(ps, "linear_acceleration")
        ang_vel_sum == WeightSum(ps, "angular_velocity")
        orient_sum == WeightSum(ps, "orientation")
    IN [i \in 1 .. Len(ps) |->
          [ps[i] EXCEPT
             !.position_weight = DivideIfNonZero(@, pos_sum),
             !.linear_velocity_weight = DivideIfNonZero(@, vel_sum),
             !.linear_acceleration_weight = DivideIfNonZero(@, accel_sum),
             !.angular_velocity_weight = DivideIfNonZero(@, ang_vel_sum),
             !.orientation_weight = DivideIfNonZero(@, orient_sum)]]

\* the weighted sum of dimension d
Mean(ps, d) == RSum([i \in 1 .. Len(ps) |-> RMul(<<ps[i][d], 1>>, ps[i][WeightOf[d]])])

\* quat_mean over (orientation, orientation_weight): the weighted mean
QuatMean(ps, d) == Mean(ps, d)

\* the means quat_mean computes, each of which can fail numerically
QuatDims == {"angular_velocity", "orientation"}

\* Err(e) => { error!("{e}"); Default::default() } for the angular velocities
AngularVelocityOrDefault(ps, failed) ==
    IF "angular_velocity" \in failed THEN identity_rotation
    ELSE QuatMean(ps, "angular_velocity")

\* An orientation fallback that takes the default as well.
OrientationOrDefault(ps, failed) ==
    IF "orientation" \in failed THEN identity_rotation
    ELSE QuatMean(ps, "orientation")

\* Err(e) => { error!("{e}"); nconvert(bb.robot_base.get_isometry().rotation) }
OrientationOrHeld(ps, failed) ==
    IF "orientation" \in failed THEN robot_base.rotation
    ELSE QuatMean(ps, "orientation")

\* The rest of the block, once every particle is resampled: the likelihood
\* table, the normalisation, the means, and the write to bb.robot_base.
Estimate ==
    /\ lpc = "resample"
    /\ cursor > Len(particles)
    /\ \E failed \in SUBSET QuatDims :
         LET ps == Normalize(ApplyLikelihood(particles))
         IN /\ particles' = ps
            /\ robot_base' = [translation |-> Mean(ps, "position"),
                              rotation |-> OrientationOrHeld(ps, failed),
                              linear_velocity |-> Mean(ps, "linear_velocity")]
            /\ lblock' = [lblock EXCEPT !.blocks = @ + 1, !.writes = @ + 1,
                                        !.errors = failed,
                                        !.angular_velocity =
                                            AngularVelocityOrDefault(ps, failed)]
    /\ lpc' = "select"
    \* delta and the tables are dead until the next block rebuilds them
    /\ delta' = 0
    /\ tables' = <<>>
    /\ cursor' = 0
    /\ UNCHANGED <<waited, likelihood_table, iterations, lobs>>
    /\ UNCHANGED notLoc

\* run_localizer is entered: the particles are seeded and weigh the same
InitLoc ==
    /\ InitSub /\ InitMap /\ InitSup /\ InitPathIdle /\ InitRest
    /\ lpc = "select"
    /\ particles \in [1 .. NumParticles -> { Seeded(seed) : seed \in SeedSet }]
    /\ waited = 0
    /\ delta = 0
    /\ tables = <<>>
    /\ cursor = 0
    /\ robot_base = StartBase
    /\ likelihood_table \in TableSet
    /\ iterations = 0
    /\ lobs = <<>>
    /\ lblock = <<>>

NextLoc ==
    \/ LocTick
    \/ Recalibrate
    \/ Timeout
    \/ \E v \in RestSet, va \in VarianceSet, vw \in VarianceSet : ObserveImu(v, va, v, vw)
    \/ \E v \in ObsSet, variance \in VarianceSet : ObservePosition(v, variance)
    \/ \E v \in RestSet, variance \in VarianceSet : ObserveVelocity(v, variance)
    \/ \E v \in RestSet, variance \in VarianceSet : ObserveOrientation(v, variance)
    \/ BuildTables
    \/ Resample
    \/ Estimate

SpecLoc == InitLoc /\ [][NextLoc]_vars

\* The stationary scenario: the seeds carry the start noise on the position
\* and on the velocity, the likelihood tables are constant, and the only
\* input is one position observation of variance 0 per interval.
StationarySeeds ==
    { [position |-> x, linear_velocity |-> v, linear_acceleration |-> Gravity,
       orientation |-> 0, angular_velocity |-> 0] : x \in {0, 1}, v \in {0, 1} }

\* the observed position p0
StationaryObs == {2}

InitStationary ==
    /\ InitSub /\ InitMap /\ InitSup /\ InitPathIdle /\ InitRest
    /\ lpc = "select"
    /\ particles \in [1 .. NumParticles -> { Seeded(seed) : seed \in StationarySeeds }]
    /\ waited = 0
    /\ delta = 0
    /\ tables = <<>>
    /\ cursor = 0
    /\ robot_base = StartBase
    /\ likelihood_table = [d \in Dims |-> "one"]
    /\ iterations = 0
    /\ lobs = <<>>
    /\ lblock = <<>>

\* the next observation arrives one interval after the last one
ObserveStationary(position) ==
    /\ waited > 0
    /\ ObservePosition(position, 0)

NextStationary ==
    \/ LocTick
    \/ \E v \in StationaryObs : ObserveStationary(v)
    \/ BuildTables
    \/ Resample
    \/ Estimate

SpecStationary == InitStationary /\ [][NextStationary]_vars

(***************************************************************************)
(* run_all: the node tasks and the supervising loop.                       *)
(***************************************************************************)
\* runnable.run().await ends: Ok(()), Err(e) or a panic.  A task that was told
\* to stop can still run to its end before it next yields.
NodeFinish(n, outcome) ==
    /\ nodeState[n] = "running"
    /\ nodeState' = [nodeState EXCEPT ![n] = outcome]
    /\ doneQ' = Append(doneQ, n)
    /\ UNCHANGED <<spc, joinedIn, aborting, ctrl_c_failed, errorLog, leftBy>>
    /\ UNCHANGED notSup

\* a task that was told to stop is dropped at its next suspension point
NodeCancelled(n) ==
    /\ aborting
    /\ nodeState[n] = "running"
    /\ nodeState' = [nodeState EXCEPT ![n] = "cancelled"]
    /\ doneQ' = Append(doneQ, n)
    /\ UNCHANGED <<spc, joinedIn, aborting, ctrl_c_failed, errorLog, leftBy>>
    /\ UNCHANGED notSup

\* select! branch: option = tasks.join_next() => Some(result)
\*   if let Err((e, name)) = result? { error!(...) }
\* result? returns the JoinError of a panicked task out of run_all, which
\* drops the JoinSet and with it every task still running.
JoinNext ==
    /\ spc = "loop"
    /\ doneQ # <<>>
    /\ LET n == Head(doneQ) IN
       /\ doneQ' = Tail(doneQ)
       /\ joinedIn' = [joinedIn EXCEPT ![n] = "loop"]
       /\ IF nodeState[n] = "panicked"
          THEN /\ spc' = "retErr"
               /\ aborting' = TRUE
               /\ leftBy' = "joinError"
               /\ UNCHANGED errorLog
          ELSE /\ errorLog' = IF nodeState[n] = "err" THEN errorLog \cup {n} ELSE errorLog
               /\ UNCHANGED <<spc, aborting, leftBy>>
    /\ UNCHANGED <<nodeState, ctrl_c_failed>>
    /\ UNCHANGED notSup

\* select! branch: option = tasks.join_next() => None
\*   info!("All Nodes terminated. Exiting..."); break;  then tasks.abort_all()
JoinNone ==
    /\ spc = "loop"
    /\ \A n \in Nodes : joinedIn[n] # "no"
    /\ spc' = "drain"
    /\ aborting' = TRUE
    /\ leftBy' = "allDone"
    /\ UNCHANGED <<nodeState, doneQ, joinedIn, ctrl_c_failed, errorLog>>
    /\ UNCHANGED notSup

\* select! branch: result = ctrl_c_fut => Ok: break, then tasks.abort_all();
\* Err: ctrl_c_failed = true and the next rounds wait on pending().
CtrlC(ok) ==
    /\ spc = "loop"
    /\ ~ctrl_c_failed
    /\ IF ok
       THEN /\ spc' = "drain"
            /\ aborting' = TRUE
            /\ leftBy' = "interrupt"
            /\ UNCHANGED ctrl_c_failed
       ELSE /\ ctrl_c_failed' = TRUE
            /\ UNCHANGED <<spc, aborting, leftBy>>
    /\ UNCHANGED <<nodeState, doneQ, joinedIn, errorLog>>
    /\ UNCHANGED notSup

\* while let Some(_) = tasks.join_next().await {}
DrainNext ==
    /\ spc = "drain"
    /\ doneQ # <<>>
    /\ doneQ' = Tail(doneQ)
    /\ joinedIn' = [joinedIn EXCEPT ![Head(doneQ)] = "drain"]
    /\ UNCHANGED <<spc, nodeState, aborting, ctrl_c_failed, errorLog, leftBy>>
    /\ UNCHANGED notSup

\* A drain that returns Ok(()) as soon as no finished task is waiting.
DrainDoneEarly ==
    /\ spc = "drain"
    /\ doneQ = <<>>
    /\ spc' = "retOk"
    /\ UNCHANGED <<nodeState, doneQ, joinedIn, aborting, ctrl_c_failed, errorLog, leftBy>>
    /\ UNCHANGED notSup

\* join_next() yields None, which it does once the JoinSet is empty: Ok(())
DrainDone ==
    /\ spc = "drain"
    /\ \A n \in Nodes : joinedIn[n] # "no"
    /\ spc' = "retOk"
    /\ UNCHANGED <<nodeState, doneQ, joinedIn, aborting, ctrl_c_failed, errorLog, leftBy>>
    /\ UNCHANGED notSup

NextSup ==
    \/ \E n \in Nodes : \E outcome \in {"ok", "err", "panicked"} : NodeFinish(n, outcome)
    \/ \E n \in Nodes : NodeCancelled(n)
    \/ JoinNext
    \/ JoinNone
    \/ \E ok \in BOOLEAN : CtrlC(ok)
    \/ DrainNext
    \/ DrainDone

SpecSup == Init /\ [][NextSup]_vars

(***************************************************************************)
(* Properties of the Subscriber.                                           *)
(***************************************************************************)
TypeSub ==
    /\ Len(queue) <= Capacity
    /\ \A r \in Receivers : rpc[r] \in {"idle", "closed", "notified", "parked", "woken"}

\* C3: once the subscription is closed (every callback dropped) and empty, a
\* recv completes: none stays in progress for ever, a recv that was already
\* parked on the notification when the last callback went included.
\* Checked under FairSub.
C3_ClosedRecvCompletes ==
    \A r \in SubReceivers :
        []<>(~(rpc[r] # "idle" /\ is_closed /\ queue = <<>>))

\* C4 as claimed: a callback returns Break exactly when the Subscriber has been
\* dropped: Break only after the drop, Continue only if the Subscriber still
\* existed when the callback looked for the buffer.
C4_BreakIffSubscriberDropped ==
    \A p \in Producers :
        /\ lastResult[p] = "Break" => ~aliveAtUpgrade[p]
        /\ lastResult[p] = "Continue" => aliveAtUpgrade[p]

\* C4 amended: a callback returns Break exactly when the buffer had no strong
\* owner at its upgrade, neither the Subscriber nor another invocation in
\* flight; every other call returns Continue, whatever the push did.
C4_BreakIffNoStrongOwner ==
    \A p \in Producers :
        /\ lastResult[p] = "Break" => (~aliveAtUpgrade[p] /\ ~heldAtUpgrade[p])
        /\ lastResult[p] = "Continue" => (aliveAtUpgrade[p] \/ heldAtUpgrade[p])
        /\ (ppc[p] = "idle" /\ lastResult[p] = "none") => (~aliveAtUpgrade[p] /\ ~heldAtUpgrade[p])

\* a call that began after the Subscriber was dropped returned Continue
C4_Witness ==
    \E p \in Producers :
        lastResult[p] = "Continue" /\ ~aliveAtUpgrade[p] /\ heldAtUpgrade[p]

\* C5: after a run of pushes through create_callback with no receive in
\* between, the queue holds the last Capacity values of the run (preceded by
\* what the queue held before it), and receives return them oldest first.
C5_ForceKeepsLastK ==
    burstForce => (drained \o queue = burstLast)

\* more than Capacity values were force-pushed in one run, then one was received
C5_Witness ==
    burstForce /\ burstLen > Capacity /\ drained # <<>> /\ queue # <<>>

\* C6: a push through a conservative callback that finds the queue full leaves
\* the queue as it was, returns without notifying anyone, and the queue never
\* grows beyond its capacity.
C6_ConservativeFullPush ==
    [][\A p \in Producers :
          (ppc[p] = "push" /\ ppc'[p] # "push"
             /\ cbMode[p] = "conservative" /\ Len(queue) >= Capacity)
          => /\ queue' = queue
             /\ permit' = permit /\ waiters' = waiters /\ rpc' = rpc
             /\ ppc'[p] = "idle" /\ lastResult'[p] = "Continue"
             /\ Len(queue') <= Capacity]_vars

\* a conservative push has just been refused by a full queue
C6_Witness ==
    lastPush = "refused" /\ Len(queue) = Capacity
        /\ \E p \in Producers : lastResult[p] = "Continue" /\ cbMode[p] = "conservative"

\* C7: the values a consumer receives from one producer arrive in the order
\* the producer pushed them (its sequence numbers only grow), whichever
\* callback the producer uses.
C7_PerProducerFifo ==
    [][\A p \in Producers : lastGot'[p] >= lastGot[p]]_vars

\* two values of one producer were received one after the other
C7_Witness ==
    Len(drained) >= 2 /\ drained[1][1] = drained[2][1]

\* C8: no recv caller stays parked forever while the queue holds a value.
\* Checked under FairFan.
C8_NoLostWakeup ==
    \A r \in FanReceivers : []<>(~(rpc[r] = "parked" /\ queue # <<>>))

\* C9: dropping an unfinished recv future removes nothing: the queue always
\* holds exactly the values it accepted that were neither displaced by a
\* force push nor received, in the order they were pushed.
C9_CancelKeepsMessages ==
    queue = pending

\* a recv future was dropped while a message was queued, and the next receive
\* returned that message
C9_Witness ==
    \E r \in Receivers :
        /\ cancelHead[r] # <<>>
        /\ lastGot[cancelHead[r][1][1]] = cancelHead[r][1][2]
(***************************************************************************)
(* Properties of the Costmap.                                              *)
(***************************************************************************)
\* the points the clouds received so far put into a cell
PointsIn(cell) ==
    { bi \in UNION { {<<b, i>> : i \in PointsOf(b)} : b \in DOMAIN batches } :
        batches[bi[1]].pts[bi[2]].index = cell }

RECURSIVE SumHeights(_)
\* sum of the heights of a set of points
SumHeights(S) ==
    IF S = {} THEN 0
    ELSE LET bi == CHOOSE y \in S : TRUE
         IN batches[bi[1]].pts[bi[2]].height + SumHeights(S \ {bi})

\* C1: at every instant each cell holds exactly the contributions of the
\* clouds received at t with t <= now < t + window_duration: +1 in counts and
\* +height in heights for each of their points in the cell.
C1_Retention ==
    \A cell \in Cells :
        LET live == { bi \in PointsIn(cell) :
                        batches[bi[1]].t <= now /\ now < batches[bi[1]].t + WindowDuration }
        IN /\ counts[cell] = Cardinality(live)
           /\ heights[cell] = SumHeights(live)

\* C2: under every interleaving no retraction takes effect before its
\* insertion: per cell the retracted contributions never exceed the inserted
\* ones, so no counter wraps and each cell equals inserted minus retracted.
C2_AtomicSafety ==
    \A cell \in Cells :
        LET insC == { bi \in PointsIn(cell) : insDone[bi[1]][bi[2]] >= 1 }
            retC == { bi \in PointsIn(cell) : retDone[bi[1]][bi[2]] >= 1 }
            insH == { bi \in PointsIn(cell) : insDone[bi[1]][bi[2]] = 2 }
            retH == { bi \in PointsIn(cell) : retDone[bi[1]][bi[2]] = 2 }
        IN /\ Cardinality(retC) <= Cardinality(insC)
           /\ counts[cell] = Cardinality(insC) - Cardinality(retC)
           /\ SumHeights(retH) <= SumHeights(insH)
           /\ heights[cell] = SumHeights(insH) - SumHeights(retH)

\* batch b has been retracted in full
Retracted(b) == \A i \in PointsOf(b) : retDone[b][i] = 2

\* C36: the worker takes the batches in the order of their ingestion, works
\* on a batch during one visit only and on each point once, never before the
\* batch is due and only after every earlier batch is retracted; a batch that
\* is already due when the worker takes it is not waited for.
C36_RetractionOrder ==
    /\ []((wpc = "sleep" /\ now >= batches[wcur].due) => ENABLED WorkerSleep)
    /\ [][/\ wcur' # wcur => wcur' = wcur + 1
          /\ \A b \in DOMAIN retDone :
                retDone'[b] # retDone[b] =>
                    /\ b = wcur /\ wcur' = wcur
                    /\ now >= batches[b].due
                    /\ \A a \in 1 .. b - 1 : Retracted(a)
                    /\ \A i \in PointsOf(b) :
                          retDone'[b][i] \in {retDone[b][i], retDone[b][i] + 1}
         ]_vars

\* the worker took the second batch after its due time had passed, the
\* first being retracted
C36_Witness ==
    /\ wpc = "sub" /\ wcur = 2
    /\ now > batches[2].due
    /\ Retracted(1) /\ PointsOf(1) # {} /\ PointsOf(2) # {}
    /\ \E i \in PointsOf(2) : retDone[2][i] = 2

RECURSIVE StepsLeft(_)
\* fetch_sub calls the worker still owes the points S of its batch
StepsLeft(S) ==
    IF S = {} THEN 0
    ELSE LET i == CHOOSE y \in S : TRUE
         IN (2 - retDone[wcur][i]) + StepsLeft(S \ {i})

\* the steps the worker is away from its exit once no batch can be added:
\* a batch in the channel counts for more than its recv, sleep, fetch_subs
\* and loop together
WorkLeft ==
    (IF wpc = "exited" THEN 0 ELSE 1)
      + Len(del_chan) * (4 + 2 * Len(CHOOSE c \in CloudSet : \A d \in CloudSet : Len(d) <= Len(c)))
      + (IF wpc = "sleep" THEN 2 + StepsLeft(PointsOf(wcur))
         ELSE IF wpc = "sub" THEN 1 + StepsLeft(PointsOf(wcur)) ELSE 0)

\* a step of the worker
WorkerStep ==
    \/ WorkerRecv \/ WorkerSleep \/ WorkerLoop
    \/ \E i \in PointsOf(wcur) : WorkerSubCount(i)
    \/ \E i \in PointsOf(wcur) : WorkerSubHeight(i)

\* C37: the worker exits only after Costmap::run was cancelled; and once it
\* was, the worker is never blocked but by a sleep that has not reached its
\* due time, and each of its steps brings it closer to its exit.
C37_WorkerShutdown ==
    /\ [](wpc = "exited" => ~runAlive)
    /\ []((~runAlive /\ wpc # "exited") =>
            \/ wpc = "sleep" /\ now < batches[wcur].due
            \/ ENABLED WorkerStep)
    /\ [][(~runAlive /\ <<wpc, wcur, del_chan, retDone>>' # <<wpc, wcur, del_chan, retDone>>)
            => WorkLeft' < WorkLeft]_vars

\* the worker has exited after the cancellation, having retracted a batch
\* that was still in the channel when the run task was cancelled
C37_Witness ==
    /\ wpc = "exited" /\ ~runAlive
    /\ Len(batches) = 2 /\ PointsOf(2) # {} /\ Retracted(2)

\* C38: when the worker exits every batch that was ingested has been
\* retracted; and once the insertions have run as well, every cell's count and
\* height is 0 and get_costmap reads 0 everywhere.
C38_NoLeakOnShutdown ==
    wpc = "exited" =>
        /\ del_chan = <<>>
        /\ \A b \in DOMAIN batches : Retracted(b)
        /\ (\A b \in DOMAIN batches : \A i \in PointsOf(b) : insDone[b][i] = 2) =>
              \A cell \in Cells :
                  /\ counts[cell] = 0 /\ heights[cell] = 0
                  /\ CellCost(cell) = [num |-> 0, den |-> 1]

\* the worker has exited with every cell back at zero, after a retraction
\* that ran before its insertion
C38_Witness ==
    /\ wpc = "exited"
    /\ Len(batches) = 2 /\ PointsOf(1) # {} /\ PointsOf(2) # {}
    /\ \A b \in DOMAIN batches : \A i \in PointsOf(b) : insDone[b][i] = 2
    /\ \A cell \in Cells : counts[cell] = 0 /\ heights[cell] = 0

\* the point's position in grid coordinates, and the cell its measurement names
OffX == gpoint.x + grid.x_offset
OffZ == gpoint.z + grid.y_offset
CellX == gpm[1].index \div grid.area_length
CellZ == gpm[1].index % grid.area_length

\* v / d lies within half a unit of the integer k (a half counts for the
\* integer further from zero; a negative value is only ever kept at 0)
Nearest(v, d, k) ==
    IF v >= 0 THEN 2 * k * d - d <= 2 * v /\ 2 * v < 2 * k * d + d
    ELSE k = 0 /\ 0 - d < 2 * v

\* C17 as claimed: a point inside the grid gets the index
\* floor((x+x_offset)/cell_width) * area_length + floor((z+y_offset)/cell_width)
\* and the height round(y / height_step).
C17_FloorIndexing ==
    (/\ gpc # "new"
     /\ 0 <= OffX /\ OffX < grid.area_width * grid.cell_width
     /\ 0 <= OffZ /\ OffZ < grid.area_length * grid.cell_width)
    => /\ gpm # <<>>
       /\ gpm[1].index = Floor(OffX, grid.cell_width) * grid.area_length
                            + Floor(OffZ, grid.cell_width)
       /\ Nearest(gpoint.y, grid.height_step, gpm[1].height)

\* C17 amended: a point that is kept gets the index of the cell whose centre
\* is nearest, round((x+x_offset)/cell_width) * area_length +
\* round((z+y_offset)/cell_width), and the height round(y / height_step),
\* stored as 0 when y is negative.
C17_RoundIndexing ==
    gpm # <<>> =>
       /\ CellX < grid.area_width
       /\ Nearest(OffX, grid.cell_width, CellX)
       /\ Nearest(OffZ, grid.cell_width, CellZ)
       /\ IF gpoint.y <= 0 THEN gpm[1].height = 0
          ELSE Nearest(gpoint.y, grid.height_step, gpm[1].height)

\* a point was kept whose cell is not the one flooring gives
C17_Witness ==
    /\ gpm # <<>>
    /\ OffX >= 0 /\ OffZ >= 0
    /\ CellX # Floor(OffX, grid.cell_width)
    /\ gpoint.y > 0

\* C19: a point whose cell coordinate (the rounded one the closure tests) is
\* negative or at or beyond the extent is dropped and no cell ever changes
\* for it; a measurement that is kept has index < area_width * area_length,
\* inside both arrays, so that insertion and retraction stay in bounds.
C19_IngestionBounds ==
    /\ (/\ gpc # "new"
        /\ \/ 2 * OffX <= 0 - grid.cell_width
           \/ 2 * OffZ <= 0 - grid.cell_width
           \/ 2 * OffX >= 2 * grid.area_width * grid.cell_width - grid.cell_width
           \/ 2 * OffZ >= 2 * grid.area_length * grid.cell_width - grid.cell_width)
       => /\ gpm = <<>>
          /\ \A i \in DOMAIN counts : counts[i] = 0 /\ heights[i] = 0
    /\ gpm # <<>> =>
          /\ gpm[1].index < grid.area_width * grid.area_length
          /\ gpm[1].index \in DOMAIN counts /\ gpm[1].index \in DOMAIN heights
    /\ (gpc = "mapped" /\ gpm # <<>>) => ENABLED InsertPoint

\* a measurement for the last cell of the grid was inserted and retracted
C19_Witness ==
    /\ gpc = "retracted"
    /\ gpm[1].index = grid.area_width * grid.area_length - 1

\* C20: get_costmap returns area_length rows and area_width columns; entry
\* (r, c) is the cost of the cell with flat index c * area_length + r, which
\* is the cell whose centre (c * cell_width - x_offset, r * cell_width -
\* y_offset) is nearest to an inserted point: that entry reads the point's
\* height and every other entry reads 0.
C20_SnapshotLayout ==
    [][gmat' # gmat =>
        /\ DOMAIN gmat' = (0 .. grid.area_length - 1) \X (0 .. grid.area_width - 1)
        /\ \A rc \in DOMAIN gmat' :
              /\ gmat'[rc] = CellCost(rc[2] * grid.area_length + rc[1])
              /\ gmat'[rc] =
                    IF /\ gpc = "inserted"
                       /\ Nearest(OffX, grid.cell_width, rc[2])
                       /\ Nearest(OffZ, grid.cell_width, rc[1])
                    THEN [num |-> gpm[1].height, den |-> 1]
                    ELSE [num |-> 0, den |-> 1]]_vars

\* a snapshot shows a point in a cell off the diagonal
C20_Witness ==
    /\ gmat # <<>> /\ gpm # <<>>
    /\ CellX # CellZ
    /\ gmat[<<CellZ, CellX>>].num > 0

\* C18: in scenario E2 the point lands in cell 1 * 4 + 3 with height 3:
\* throughout its window heights[7] = 3, counts[7] = 1, get_costmap reports
\* 3.0 for that cell (row 3, column 1) and 0 for every other, and once the
\* window has elapsed every cell reads 0 again.
C18_ScenarioE2 ==
    batches # <<>> =>
        IF now < batches[1].t + WindowDuration
        THEN /\ heights[1 * 4 + 3] = 3 /\ counts[1 * 4 + 3] = 1
             /\ \A rc \in DOMAIN get_costmap :
                    get_costmap[rc] = IF rc = <<3, 1>> THEN [num |-> 3, den |-> 1]
                                      ELSE [num |-> 0, den |-> 1]
        ELSE /\ \A i \in DOMAIN counts : counts[i] = 0 /\ heights[i] = 0
             /\ \A rc \in DOMAIN get_costmap : get_costmap[rc] = [num |-> 0, den |-> 1]

(***************************************************************************)
(* Properties of the pathfinder.                                           *)
(***************************************************************************)
\* |dx| + |dz| in cells between the start node and the end node
Manhattan ==
    Abs(start_node.position[1] - end_node.position[1])
        + Abs(start_node.position[2] - end_node.position[2])

\* C13: where the filter forbids no cell and the height test rejected no
\* neighbour, the main astar returns a path and its cost is the Manhattan
\* distance in cells between the start node and the end node.
C13_AstarOptimal ==
    (apc \in {"smooth", "done"} /\ pin.world.filter = "all" /\ ~rejected)
        => distance = Manhattan

\* the main astar has returned for a goal three or more steps away that is
\* not straight ahead, over terrain with samples
C13_Witness ==
    /\ apc = "done" /\ pin.world.filter = "all" /\ ~rejected
    /\ distance >= 3
    /\ start_node.position[1] # end_node.position[1]
    /\ start_node.position[2] # end_node.position[2]
    /\ pin.world.terrain # Open.terrain

RECURSIVE ReachFrom(_, _)
\* the nodes the successor function of the main phase leads to from `frontier`
ReachFrom(seen, frontier) ==
    IF frontier = {} THEN seen
    ELSE LET new == UNION { { ModuleSuccessors(n)[i] : i \in DOMAIN ModuleSuccessors(n) } :
                              n \in frontier } \ seen
         IN ReachFrom(seen \cup new, new)

\* the filter bounds the grid and no node reachable from the start node is the goal
Unreachable ==
    /\ pin.world.filter = "box"
    /\ \A n \in ReachFrom({start_node}, {start_node}) : n.position # end_node.position

\* the entries astar can ever push: one per node and cost below the node count
RoundLimit == (Cardinality(Box) + 1) * (Cardinality(Box) + 1)

\* C14: when finitely many nodes are reachable from the start node and none
\* is the goal, the main astar terminates, within RoundLimit rounds, with its
\* heap empty and None, and pathfind returns None instead of a path.
C14_UnreachableReturnsNone ==
    /\ (apc = "main" /\ pin.world.filter = "box") => rounds <= RoundLimit
    /\ (apc \in {"smooth", "done"} /\ Unreachable) => (pres = <<"None">> /\ to_see = {})

\* pathfind returned None after the main astar had explored beyond its start
C14_Witness ==
    apc = "done" /\ pres = <<"None">> /\ to_see = {} /\ Len(parents) > 4 /\ pre_path # <<>>

\* C15: a returned path has at least two points, begins at from.translation
\* and ends at the caller's goal, with or without a pre-path.
C15_PathEndpoints ==
    (pres # <<>> /\ pres[1] = "Some") =>
        /\ Len(pres[2]) >= 2
        /\ pres[2][1] = pin.from.t
        /\ pres[2][Len(pres[2])] = pin.end

\* a path was returned that has a pre-path, for a pose that is not the
\* identity and a goal that is no grid point
C15_Witness ==
    /\ pres # <<>> /\ pres[1] = "Some"
    /\ pre_path # <<>>
    /\ pin.from.turns # 0
    /\ EndLocal # last

\* lower and upper bound of 8 times the length of a polyline
SegLo(a, b) ==
    LET d2 == (a.x - b.x) ^ 2 + (a.y - b.y) ^ 2 + (a.z - b.z) ^ 2
    IN CHOOSE k \in 0 .. 8 * 32 :
          k * k <= 8 * 8 * d2
             /\ 8 * 8 * d2 < (k + 1) * (k + 1)
SegHi(a, b) ==
    LET d2 == (a.x - b.x) ^ 2 + (a.y - b.y) ^ 2 + (a.z - b.z) ^ 2
    IN CHOOSE k \in 0 .. 8 * 32 :
          (k = 0 \/ (k - 1) * (k - 1) < 8 * 8 * d2)
             /\ 8 * 8 * d2 <= k * k
LengthLo(q) == SumSeq([i \in 1 .. Len(q) - 1 |-> SegLo(q[i], q[i + 1])])
LengthHi(q) == SumSeq([i \in 1 .. Len(q) - 1 |-> SegHi(q[i], q[i + 1])])

\* C16: in the returned path (taken in the frame of `from`, where the search
\* runs) traverse_to holds of every two consecutive waypoints, the segment
\* into `end` included, and the path is no longer than the polyline of
\* pre-path and A* path it was smoothed from.
C16_SmoothingSound ==
    (pres # <<>> /\ pres[1] = "Some") =>
        /\ \A i \in 1 .. Len(new_path) - 1 : traverse_to(new_path[i], new_path[i + 1])
        /\ LengthLo(new_path) <= LengthHi(path)

\* C29 as stated: astar pops an entry of minimal estimated_cost and, among
\* the entries of that estimated_cost, one of the lowest cost.
C29_PopsLowerCostFirst ==
    popped # <<>> =>
        \A r \in popped.rest :
            \/ popped.entry.estimated_cost < r[1]
            \/ popped.entry.estimated_cost = r[1] /\ popped.entry.cost <= r[2]

\* C29, amended: astar pops an entry of minimal estimated_cost and, among the
\* entries of that estimated_cost, one of the highest cost.
C29_PopsHigherCostFirst ==
    popped # <<>> =>
        \A r \in popped.rest :
            \/ popped.entry.estimated_cost < r[1]
            \/ popped.entry.estimated_cost = r[1] /\ popped.entry.cost >= r[2]

\* an entry was popped while the heap held another of the same estimated_cost
\* and a lower cost
C29_Witness ==
    /\ popped # <<>>
    /\ \E r \in popped.rest : r[1] = popped.entry.estimated_cost /\ r[2] < popped.entry.cost

\* C30: in a round of astar the cost stored for a node never grows and a
\* parent changes only with a smaller cost; an entry is pushed for a node
\* already in the map only when its stored cost became smaller, and the map
\* then holds the pushed cost and the popped node as parent; a popped entry
\* whose cost exceeds the stored cost changes nothing but the heap it leaves.
C30_StaleEntries ==
    [][rounds' = rounds + 1 =>
          /\ Len(parents') >= Len(parents)
          /\ \A i \in DOMAIN parents :
                /\ parents'[i].node = parents[i].node
                /\ parents'[i].cost <= parents[i].cost
                /\ parents'[i].cost = parents[i].cost => parents'[i].parent = parents[i].parent
          /\ \A f \in to_see' \ to_see :
                /\ f.index < Len(parents) => parents'[f.index + 1].cost < parents[f.index + 1].cost
                /\ parents'[f.index + 1].cost = f.cost
                /\ parents'[f.index + 1].parent = popped'.entry.index
          /\ popped'.stale => (parents' = parents /\ to_see' = to_see \ {popped'.entry})
      ]_vars

\* a stale entry was popped: its node had been pushed again at a lower cost
C30_Witness ==
    /\ popped # <<>>
    /\ popped.stale
    /\ parents[popped.entry.index + 1].cost < popped.entry.cost

\* the nodes of a sequence
Emitted(seq) == { seq[i] : i \in DOMAIN seq }

\* C31 as stated: of the candidates of a node expanded in the main phase, one
\* without samples is emitted with the parent's height, one with
\* too_high_count >= round(len * max_frac) is not emitted, every other one is
\* emitted with the mean of its samples, and one whose samples are all within
\* max_height_diff of the parent's height is emitted.
C31_MainSuccessorRule ==
    (popped # <<>> /\ popped.phase = "main" /\ popped.expanded) =>
        \A i \in DOMAIN ModuleCandidates(popped.node) :
            LET c == ModuleCandidates(popped.node)[i]
                hs == Samples(c)
                count == TooHighCount(hs, popped.node.height)
            IN /\ hs = <<>> =>
                     [position |-> c, height |-> popped.node.height] \in Emitted(popped.emitted)
               /\ (hs # <<>> /\ count >= Threshold(Len(hs))) =>
                     \A n \in Emitted(popped.emitted) : n.position # c
               /\ (hs # <<>> /\ count < Threshold(Len(hs))) =>
                     [position |-> c, height |-> MeanHeight(hs)] \in Emitted(popped.emitted)
               /\ (hs # <<>> /\ count = 0) =>
                     \E n \in Emitted(popped.emitted) : n.position = c

\* C34: DirectPathfinderSafefinder::successors emits no cell the filter
\* rejects, and the height of each emitted neighbour is the parent's height
\* when that neighbour has no samples and the mean of that neighbour's own
\* samples otherwise.
C34_SafeSuccessorsFiltered ==
    (popped # <<>> /\ popped.phase = "pre" /\ popped.expanded) =>
        \A n \in Emitted(popped.emitted) :
            /\ Allowed(n.position)
            /\ n.height = IF Samples(n.position) = <<>> THEN popped.node.height
                          ELSE MeanHeight(Samples(n.position))

\* the move costs along a path: every move costs 1
MoveCosts(p) == Len(p) - 1

\* C35: a result Some((path, cost)) of astar starts with the start node, ends
\* with a node that satisfies success, holds no node twice, steps only to
\* nodes the successor function emits, and has the sum of its move costs as
\* cost; a start node that satisfies success gives the one-node path, cost 0.
C35_AstarResultValid ==
    apc \in {"pre", "main"} =>
        \A e \in HeapMax(to_see) :
            LET r == AstarRound(apc, e)
            IN r.kind = "some" =>
                 /\ r.path # <<>>
                 /\ r.path[1] = parents[1].node
                 /\ Success(apc, r.path[Len(r.path)])
                 /\ \A i, j \in DOMAIN r.path :
                       i # j => r.path[i].position # r.path[j].position
                 /\ \A i \in 1 .. Len(r.path) - 1 :
                       \E n \in Emitted(Successors(apc, r.path[i])) :
                           n.position = r.path[i + 1].position
                 /\ r.cost = MoveCosts(r.path)
                 /\ Success(apc, parents[1].node) => (r.path = <<parents[1].node>> /\ r.cost = 0)

\* the main astar is about to return a path of four or more nodes over
\* sampled terrain, having found more nodes than the path holds
C35_Witness ==
    /\ apc = "main"
    /\ pin.world.terrain # Open.terrain
    /\ \E e \in HeapMax(to_see) :
          /\ AstarRound(apc, e).kind = "some"
          /\ Len(AstarRound(apc, e).path) >= 4
          /\ Len(parents) > Len(AstarRound(apc, e).path) + 2

\* C32: traverse_to returns true exactly when every intermediate sample has
\* terrain data and fewer than round(count * max_frac) of its heights differ
\* from the source height by more than max_height_diff.
C32_TraverseVerdict ==
    tpc = "done" =>
        tres = << \A i \in DOMAIN tqueries :
                     /\ LineSamples(tqueries[i]) # <<>>
                     /\ ~TooHigh(LineSamples(tqueries[i]), 0) >>

\* C33: the i-th query of traverse_to is at from + i * resolution * unit(to - from),
\* and every query lies on the segment strictly between from and to.
C33_TraverseSpacing ==
    tpc \in {"query", "done"} =>
        \A i \in DOMAIN tqueries :
            /\ tqueries[i] = tin.from + i * tin.resolution * (IF tin.to > tin.from THEN 1 ELSE -1)
            /\ Abs(tqueries[i] - tin.from) > 0
            /\ Abs(tqueries[i] - tin.from) < Abs(tin.to - tin.from)

(***************************************************************************)
(* Properties of run_localizer.                                            *)
(***************************************************************************)
\* C21: run_localizer leaves its loop only by the recalibration branch, after
\* which it returns; no timeout and no observation ends the loop.
C21_OnlyRecalibrationEnds ==
    lpc \notin {"select", "block", "resample"} =>
        (lpc = "returned" /\ lobs.branch = "recalibrate")

\* C22: an iteration that took the timeout or an observation has run the
\* block once and written RobotBase once when it ends, whether it ends at
\* the next select or with the task; the recalibration branch runs no block;
\* and the select never waits longer than max_delta.
C22_BlockOncePerIteration ==
    /\ (lpc \in {"select", "panicked"} /\ lobs # <<>>) =>
           (lblock.blocks = 1 /\ lblock.writes = 1)
    /\ lpc = "returned" => (lblock.blocks = 0 /\ lblock.writes = 0)
    /\ waited <= MaxDelta

\* C23: after an observation step with non-zero variance, the weights of an
\* observed dimension whose sum was non-zero add up to 1 within 1e-4, with
\* or without the guard.
C23_NormalisedAfterObservation ==
    lpc = "block" =>
        \A k \in DOMAIN lobs.found :
            (lobs.found[k].variance # 0 /\ lobs.found[k].sum[1] # 0) =>
                AssertHolds(WeightSum(particles, lobs.found[k].dim))

\* the guard ran on a sum that was not zero
C23_Witness ==
    /\ lpc = "block"
    /\ \E k \in DOMAIN lobs.found :
          lobs.found[k].guard /\ lobs.found[k].sum[1] # 0 /\ lobs.found[k].variance # 0

\* the particles the guard corrected, in the order the sort left
Corrected == 1 .. (IF UndeprivationCount(NumParticles) < NumParticles
                   THEN UndeprivationCount(NumParticles) ELSE NumParticles)

\* C24 as stated: whenever the guard ran (sum <= minimum_unnormalized_weight),
\* each of the ceil(N * undeprivation_factor) particles of lowest weight has,
\* after the step, a strictly larger weight than before the guard.
C24_GuardRaisesLowest ==
    lpc = "block" =>
        \A k \in DOMAIN lobs.found :
            lobs.found[k].guard =>
                \A i \in Corrected : RLt(lobs.found[k].before[i], lobs.found[k].after[i])

\* C24, amended: the same whenever the guard ran on a sum strictly below
\* minimum_unnormalized_weight.
C24_GuardRaisesLowestBelow ==
    lpc = "block" =>
        \A k \in DOMAIN lobs.found :
            (lobs.found[k].guard /\ RLt(lobs.found[k].sum, minimum_unnormalized_weight)) =>
                \A i \in Corrected : RLt(lobs.found[k].before[i], lobs.found[k].after[i])

\* the guard ran on a sum below the minimum and met a particle of weight zero
C24_Witness ==
    /\ lpc = "block"
    /\ \E k \in DOMAIN lobs.found :
          /\ lobs.found[k].guard
          /\ RLt(lobs.found[k].sum, minimum_unnormalized_weight)
          /\ lobs.found[k].sum[1] # 0
          /\ lobs.found[k].before[1][1] = 0

\* the fields an observation step worked on
ObservedFields(found) ==
    { found[k].dim : k \in DOMAIN found } \cup { WeightOf[found[k].dim] : k \in DOMAIN found }

\* C25: an observation of variance 0 gives every particle the observed value
\* and the weight 1/N on the observed dimension, without the guard; and the
\* step leaves every field alone that it does not observe.
C25_ZeroVarianceOverwrites ==
    [][(lpc = "select" /\ lpc' = "block") =>
          /\ \A k \in DOMAIN lobs'.found :
                lobs'.found[k].variance = 0 =>
                    /\ ~lobs'.found[k].guard
                    /\ \A i \in DOMAIN particles' :
                          /\ particles'[i][lobs'.found[k].dim] = lobs'.value
                          /\ particles'[i][WeightOf[lobs'.found[k].dim]] = default_weight
          /\ (\A k \in DOMAIN lobs'.found : ~lobs'.found[k].guard) =>
                \A i \in DOMAIN particles :
                    \A f \in DOMAIN particles[i] \ ObservedFields(lobs'.found) :
                        particles'[i][f] = particles[i][f]
      ]_vars

\* a zero-variance observation was taken in while the weights of its
\* dimension were not uniform before it and those of another dimension are not
C25_Witness ==
    /\ lpc = "block"
    /\ lobs.branch = "velocity"
    /\ lobs.found[1].variance = 0
    /\ \E i \in DOMAIN particles : particles[i].position_weight # default_weight
    /\ \E i \in DOMAIN particles : particles[i].position # lobs.value

\* the written translation t lies within the residual 1e-3 of p0
WithinResidual(t, p0) == Abs(t[1] - p0 * t[2]) * 1000 <= t[2]

\* C26: fed nothing but zero-variance observations of one position p0, one
\* per interval, run_localizer has written a translation within 1e-3 of p0
\* once it has taken in the last of them.
C26_StationaryConsistency ==
    (lpc = "select" /\ iterations = MaxIterations) =>
        WithinResidual(robot_base.translation, lobs.value)

\* C27: no assertion on a weight sum fires: the task never panics.
C27_AssertionsHold == lpc # "panicked"

\* C28: at the end of the block a dimension whose weights, multiplied by the
\* likelihood table, add up to zero has the weights it had before the
\* likelihood step, and every other dimension has weights that add up to 1.
C28_ZeroSumUntouched ==
    [][(lpc = "resample" /\ lpc' = "select") =>
          \A d \in Dims :
              IF WeightSum(ApplyLikelihood(particles), d)[1] = 0
              THEN Weights(particles', d) = Weights(particles, d)
              ELSE WeightSum(particles', d) = <<1, 1>>
      ]_vars

\* C39: in the block's estimate, a failed mean of the orientations leaves in
\* RobotBase the rotation it held before the iteration, a failed mean of the
\* angular velocities yields the identity, each failure is logged, RobotBase
\* is written all the same and the loop goes on to its next select.
C39_QuatMeanFailure ==
    [][(lpc = "resample" /\ lpc' # "resample") =>
          /\ lpc' = "select"
          /\ lblock'.writes = lblock.writes + 1
          /\ lblock'.errors \subseteq QuatDims
          /\ "orientation" \in lblock'.errors =>
                /\ robot_base'.rotation = lblock.held
                /\ robot_base'.rotation = robot_base.rotation
          /\ "orientation" \notin lblock'.errors =>
                robot_base'.rotation = QuatMean(particles', "orientation")
          /\ "angular_velocity" \in lblock'.errors =>
                lblock'.angular_velocity = identity_rotation
          /\ robot_base'.translation = Mean(particles', "position")
      ]_vars

\* the mean of the orientations failed in both iterations: the second write
\* still holds the rotation RobotBase had when the task began
C39_Witness ==
    /\ iterations = 2 /\ lpc = "select"
    /\ "orientation" \in lblock.errors
    /\ robot_base.rotation = StartBase.rotation
    /\ robot_base.rotation # QuatMean(particles, "orientation")

\* the calls of run and run_infallible among the first n entries that
\* returned Running
RunningCalls(n) == { i \in 1 .. n : returned[i].status = "Running" }

\* C40: over any sequence of run, run_infallible and reset calls, a call
\* returns Running with func's result when it is the first, follows a reset
\* or follows a Success, and Success without a result when it follows a
\* Running; func has been invoked once per Running; and after a reset the
\* behaviour is in the not-ran state.
C40_RunOnceAlternates ==
    /\ \A i \in DOMAIN returned :
          returned[i].call # "reset" =>
              IF i > 1 /\ returned[i - 1].status = "Running"
              THEN returned[i].status = "Success" /\ returned[i].value = 0
              ELSE returned[i].status = "Running" /\ returned[i].value \in FuncSet
    /\ invoked = Cardinality(RunningCalls(Len(returned)))
    /\ ran = (returned # <<>> /\ returned[Len(returned)].status = "Running")
    /\ armed => ~ran

\* a Running/Success pair over both methods, then a Running cut short by a
\* reset, after which func ran again
C40_Witness ==
    /\ Len(returned) = 5
    /\ [i \in 1 .. 5 |-> returned[i].status]
          = <<"Running", "Success", "Running", "none", "Running">>
    /\ returned[1].call # returned[2].call
    /\ invoked = 3

(***************************************************************************)
(* Properties of run_all.                                                  *)
(***************************************************************************)
\* C10: when the loop's join_next hands over the result of a panicked node,
\* run_all logs that node's name and goes on supervising: it does not return
\* and does not stop the other nodes because of the panic.
C10_PanicIsolated ==
    \A n \in Nodes :
        (joinedIn[n] = "loop" /\ nodeState[n] = "panicked")
            => (n \in errorLog /\ spc # "retErr")

\* C11: after Ctrl-C every outstanding task has been told to stop, and run_all
\* returns Ok only once join_next has handed over every task: none is still
\* running and none is left in the JoinSet.
C11_InterruptDrains ==
    /\ leftBy = "interrupt" => (aborting /\ spc \in {"drain", "retOk"})
    /\ spc = "retOk" =>
          /\ doneQ = <<>>
          /\ \A n \in Nodes : nodeState[n] # "running" /\ joinedIn[n] # "no"

\* run_all returned Ok after Ctrl-C, having drained a task it had cancelled
C11_Witness ==
    /\ spc = "retOk" /\ leftBy = "interrupt"
    /\ \E n \in Nodes : nodeState[n] = "cancelled" /\ joinedIn[n] = "drain"

\* C12: a node's Err is logged with the node's name and stops nothing: the
\* loop is left, and the remaining tasks are told to stop, only when every
\* node has completed or an interrupt was received.
C12_ErrKeepsSupervising ==
    /\ \A n \in Nodes : (joinedIn[n] = "loop" /\ nodeState[n] = "err") => n \in errorLog
    /\ spc # "loop" => leftBy \in {"allDone", "interrupt"}
    /\ aborting => leftBy \in {"allDone", "interrupt"}
    /\ leftBy = "allDone" => \A n \in Nodes : joinedIn[n] = "loop"
====
